---- MODULE Spec2Model ----
(***************************************************************************)
(* Gem, the Tableau workbook explorer: the parsing-to-graph pipeline.      *)
(*                                                                         *)
(*   SpecBuild      buildGraph (src/src/graph-builder.js), one step per    *)
(*                  iteration of its forEach loops, run again on the same  *)
(*                  metadata once it has returned                          *)
(*   SpecNormalize  normalizeGraph (src/src/graph-builder.js)              *)
(*   SpecExtract    extractCalculationReferences (parsers module)          *)
(*   SpecHood       getNeighborhood and its memo cache (src/src/filters.js)*)
(*   SpecCycles     detectCycles (parsers module)                          *)
(*   SpecLayout     the layout handlers (src/src/layouts.js) with the      *)
(*                  layout history (src/src/history.js)                    *)
(*   SpecHistory    the layout history on its own, filled past its limit   *)
(*   SpecLoad       handleFiles (ui-handlers module), overlapping uploads  *)
(*   SpecLoadFair   SpecLoad where every awaited promise settles           *)
(*   SpecCanonical  canonicalId on its own, on large sets of used ids      *)
(*   SpecReload     drawGraph between calls of getNeighborhood             *)
(*   SpecEdges      addEdge on its own, on node ids that hold an arrow     *)
(*                                                                         *)
(* A JavaScript string is a sequence of one-character strings, so that     *)
(* trimming, bracket stripping, lower-casing and slugs are computed and    *)
(* not assumed.                                                            *)
(***************************************************************************)
EXTENDS Integers, Sequences, FiniteSets, TLC

VARIABLES
  meta,        \* buildGraph: the metadata object it was given
  pc,          \* buildGraph: the loop it is in
  cursor,      \* buildGraph: 1-based index of the next element of that loop
  nodes,       \* buildGraph: const nodes = []
  edges,       \* buildGraph: const edges = []
  edgeKeys,    \* buildGraph: const edgeKeys = new Set()
  usedIds,     \* buildGraph: const usedIds = new Set()
  nameToIds,   \* buildGraph: nameToIds[type], the registerName calls in order
  run,         \* how many times buildGraph has been started on meta
  firstIds,    \* the node ids the first run returned
  buildReturn, \* buildGraph: the cycles it logged and the graph it returned
  rawGraph,    \* normalizeGraph: the payload it was given
  npc,         \* normalizeGraph: the loop it is in
  ncursor,     \* normalizeGraph: 1-based index of the next raw node / raw edge
  normalizedNodes,  \* normalizeGraph: const normalizedNodes = []
  normalizedEdges,  \* normalizeGraph: const normalizedEdges = []
  nodeIds,     \* normalizeGraph: const nodeIds = new Set()
  edgeIds,     \* normalizeGraph: const edgeIds = new Set()
  formula,     \* extractCalculationReferences: its argument
  xpc,         \* extractCalculationReferences: "call" before, "returned" after
  extracted,   \* extractCalculationReferences: the object it returned
  cyEdges,     \* the rendered graph: the (source, target) pairs of its edges
  neighborhoods,  \* state.memoCache.neighborhoods
  hood,        \* getNeighborhood: the last call and the collection it returned
  cycleGraph,  \* detectCycles: the graph it was given
  cpc,         \* detectCycles: "call" before, "returned" after
  cycles,      \* detectCycles: the array it returned
  cyNodes,     \* layouts: cy.nodes(), each with its id, type and selection
  cyLinks,     \* layouts: the (source, target) pairs of cy.edges()
  positions,   \* layouts: node.position() of every node
  layoutHistory,       \* state.layoutHistory
  layoutHistoryIndex,  \* state.layoutHistoryIndex
  rank,        \* runHierarchyLayout: the rank map of its last run
  dist,        \* runCenteredFromSelectionLayout: the dist object of its last run
  lastCall,    \* the handler that ran last
  positionsBefore,     \* the positions when the last layout handler was entered
  layoutRuns,  \* how many layout handlers have run
  uploads,     \* handleFiles: each invocation, where it stands and what it saw
  isProcessingFile,  \* state.isProcessingFile
  stateMeta,   \* state.meta: the upload whose metadata is stored, 0 for null
  stateGraph,  \* state.graph: the upload whose graph is stored, 0 for null
  lookups,     \* state.nodeIndex, nameToId, lookupMap, lookupEntries
  cyReady,     \* whether state.cy has been created
  canon,       \* canonicalId: the call in hand, its usedIds and where it stands
  cleared,     \* drawGraph: the cache entries its last clearMemoCache() dropped
  edgeCalls    \* addEdge: the (source, target, rel) of every call made so far

buildVars == <<meta, pc, cursor, nodes, edges, edgeKeys, usedIds, nameToIds, run, firstIds,
               buildReturn>>
normVars == <<rawGraph, npc, ncursor, normalizedNodes, normalizedEdges, nodeIds, edgeIds>>
extractVars == <<formula, xpc, extracted>>
hoodVars == <<cyEdges, neighborhoods, hood>>
cycleVars == <<cycleGraph, cpc, cycles>>
layoutVars == <<cyNodes, cyLinks, positions, layoutHistory, layoutHistoryIndex, rank,
                dist, lastCall, positionsBefore, layoutRuns>>
loadVars == <<uploads, isProcessingFile, stateMeta, stateGraph, lookups, cyReady>>
canonVars == <<canon>>
reloadVars == <<cleared>>
edgeCallVars == <<edgeCalls>>
restVars == <<canonVars, reloadVars, edgeCallVars>>
laterVars == <<hoodVars, cycleVars, layoutVars, loadVars, restVars>>
vars == <<buildVars, normVars, extractVars, laterVars>>

(***************************************************************************)
(* Bounds of the explored inputs.                                          *)
(***************************************************************************)
MaxEntities == 3
MaxRawNodes == 2
MaxRawEdges == 2
MaxFormulaLen == 4
MaxHoodNodes == 3
MaxHoodEdges == 2
MaxCached == 1
MaxCycleNodes == 3
MaxCycleEdges == 4
MaxLayoutNodes == 3
MaxLayoutEdges == 2
MaxArrangements == 1
MaxLayoutRuns == 2
MaxUploads == 2
MaxSaves == 22
MaxEdgeCalls == 2

(***************************************************************************)
(* Program constants.                                                      *)
(***************************************************************************)
MAX_ITERATIONS == 10000

(***************************************************************************)
(* Text.                                                                   *)
(***************************************************************************)
Undefined == <<"undefined">>

UpperCaseLetters ==
  <<"A","B","C","D","E","F","G","H","I","J","K","L","M",
    "N","O","P","Q","R","S","T","U","V","W","X","Y","Z">>

LowerCaseLetters ==
  <<"a","b","c","d","e","f","g","h","i","j","k","l","m",
    "n","o","p","q","r","s","t","u","v","w","x","y","z">>

Digits == <<"0","1","2","3","4","5","6","7","8","9">>

Range(s) == {s[i] : i \in 1..Len(s)}

WhiteSpace == {" ", "\t", "\n"}

SlugChars == Range(LowerCaseLetters) \cup Range(Digits)

\* NAME_NORMALIZER = /[\[\]]/g
NAME_NORMALIZER == {"[", "]"}

\* Truthiness of a string value: undefined and '' are falsy.
Truthy(s) == s # Undefined /\ s # <<>>

\* `value || ''`
OrEmpty(s) == IF Truthy(s) THEN s ELSE <<>>

RECURSIVE Concat(_)
Concat(ss) == IF ss = <<>> THEN <<>> ELSE Head(ss) \o Concat(Tail(ss))

\* String.prototype.replace(/[set]/g, '')
RemoveChars(s, set) == SelectSeq(s, LAMBDA c : c \notin set)

RECURSIVE TrimStart(_)
TrimStart(s) ==
  IF s # <<>> /\ Head(s) \in WhiteSpace THEN TrimStart(Tail(s)) ELSE s

RECURSIVE TrimEnd(_)
TrimEnd(s) ==
  IF s # <<>> /\ s[Len(s)] \in WhiteSpace THEN TrimEnd(SubSeq(s, 1, Len(s) - 1)) ELSE s

\* String.prototype.trim()
Trim(s) == TrimEnd(TrimStart(s))

ToLowerChar(c) ==
  IF \E i \in 1..26 : UpperCaseLetters[i] = c
  THEN LowerCaseLetters[CHOOSE i \in 1..26 : UpperCaseLetters[i] = c]
  ELSE c

\* String.prototype.toLowerCase()
ToLowerCase(s) == [i \in 1..Len(s) |-> ToLowerChar(s[i])]

\* `${n}` for a non-negative integer
RECURSIVE NumberToString(_)
NumberToString(n) ==
  IF n < 10 THEN <<Digits[n + 1]>>
  ELSE NumberToString(n \div 10) \o <<Digits[(n % 10) + 1]>>

\* replace(/[^a-z0-9]+/g, '-'): every maximal run of other characters becomes one '-'
RECURSIVE DashRuns(_, _)
DashRuns(s, inRun) ==
  IF s = <<>> THEN <<>>
  ELSE IF Head(s) \in SlugChars THEN <<Head(s)>> \o DashRuns(Tail(s), FALSE)
  ELSE IF inRun THEN DashRuns(Tail(s), TRUE)
  ELSE <<"-">> \o DashRuns(Tail(s), TRUE)

RECURSIVE StripLeading(_, _)
StripLeading(s, c) == IF s # <<>> /\ Head(s) = c THEN StripLeading(Tail(s), c) ELSE s

RECURSIVE StripTrailing(_, _)
StripTrailing(s, c) ==
  IF s # <<>> /\ s[Len(s)] = c THEN StripTrailing(SubSeq(s, 1, Len(s) - 1), c) ELSE s

\* slugify without toLowerCase()
slugify_KeepsCase(text) ==
  StripTrailing(
    StripLeading(DashRuns(RemoveChars(OrEmpty(text), NAME_NORMALIZER), FALSE), "-"), "-")

slugify(text) ==
  StripTrailing(
    StripLeading(
      DashRuns(RemoveChars(ToLowerCase(OrEmpty(text)), NAME_NORMALIZER), FALSE), "-"), "-")

RECURSIVE SqueezeSpaces(_, _)
SqueezeSpaces(s, inRun) ==
  IF s = <<>> THEN <<>>
  ELSE IF Head(s) \notin WhiteSpace THEN <<Head(s)>> \o SqueezeSpaces(Tail(s), FALSE)
  ELSE IF inRun THEN SqueezeSpaces(Tail(s), TRUE)
  ELSE <<" ">> \o SqueezeSpaces(Tail(s), TRUE)

\* normalizeName that also lower-cases and collapses white space
normalizeName_FoldsCase(name) ==
  SqueezeSpaces(ToLowerCase(Trim(RemoveChars(OrEmpty(name), NAME_NORMALIZER))), FALSE)

normalizeName(name) == Trim(RemoveChars(OrEmpty(name), NAME_NORMALIZER))

displayName(name) ==
  LET str == Trim(OrEmpty(name)) IN
  IF str # <<>> /\ Head(str) = "[" /\ str[Len(str)] = "]" THEN str
  ELSE <<"[">> \o str \o <<"]">>

(***************************************************************************)
(* Metadata explored by buildGraph: sequences drawn from these entities.   *)
(***************************************************************************)
sTotal == <<"T","o","t","a","l">>
sTotalPadded == <<" ","T","o","t","a","l"," ">>
sTotalUpper == <<"T","O","T","A","L">>
sProfit == <<"P","r","o","f","i","t">>
sProfitBracketed == <<"[","P","r","o","f","i","t","]">>
sProfitLower == <<"p","r","o","f","i","t">>
sNetProfit == <<"N","e","t"," ","P","r","o","f","i","t">>
sNetProfitWide == <<"N","e","t"," "," ","P","r","o","f","i","t">>
sRate == <<"R","a","t","e">>
sSales == <<"S","a","l","e","s">>
sSalesBracketed == <<"[","S","a","l","e","s","]">>
sOverview == <<"O","v","e","r","v","i","e","w">>
sFieldTotal == <<"f","i","e","l","d",":","t","o","t","a","l">>
sFieldTotal2 == <<"f","i","e","l","d",":","t","o","t","a","l","-","2">>
sSheet1 == <<"S","h","e","e","t"," ","1">>
sParameter1 == <<"[","P","a","r","a","m","e","t","e","r"," ","1","]">>

FEEDS == <<"F","E","E","D","S">>
PARAM_OF == <<"P","A","R","A","M","_","O","F">>
USED_IN == <<"U","S","E","D","_","I","N">>
ON == <<"O","N">>

NodeTypes == {"Field", "CalculatedField", "Worksheet", "Dashboard", "Parameter"}

FieldPool ==
  { [rawId |-> <<>>, name |-> sTotal, is_calculated |-> FALSE],
    [rawId |-> sProfitBracketed, name |-> sProfit, is_calculated |-> FALSE],
    [rawId |-> sFieldTotal, name |-> <<>>, is_calculated |-> FALSE],
    [rawId |-> sProfitBracketed, name |-> sProfit, is_calculated |-> TRUE,
     references |-> [fields |-> <<sProfitBracketed>>, parameters |-> <<sRate>>]],
    [rawId |-> <<>>, name |-> sNetProfit, is_calculated |-> TRUE,
     references |-> [fields |-> <<sProfitBracketed, sProfitLower, sTotalPadded>>,
                     parameters |-> <<sProfit>>]] }

ParameterPool ==
  { [rawId |-> sParameter1, name |-> sRate],
    [rawId |-> <<>>, name |-> sProfit] }

WorksheetPool ==
  { [rawId |-> sSheet1, name |-> sSales,
     fields_used |-> <<sProfit, sProfitBracketed, sTotalPadded>>],
    [rawId |-> <<>>, name |-> sSales,
     fields_used |-> <<sProfitLower, sNetProfitWide, sTotalUpper>>],
    [rawId |-> sProfitBracketed, name |-> sProfit,
     fields_used |-> <<sNetProfit, sTotal>>] }

DashboardPool ==
  { [rawId |-> <<>>, name |-> sOverview, worksheets |-> <<sSales, sSalesBracketed>>],
    [rawId |-> sSheet1, name |-> sSales, worksheets |-> <<sSales, sProfit>>] }

\* Date.now() and Math.random().toString(36).substr(2, 9): unknown to the caller
Timestamps == {<<"1","7">>}
RandomTokens == {<<"k","3">>, <<"z","9">>}

(***************************************************************************)
(* buildGraph                                                              *)
(***************************************************************************)
\* meta.datasources.forEach((datasource, dsIndex) => datasource.fields.forEach((field, index) => ...))
RECURSIVE FlatFieldsFrom(_, _)
FlatFieldsFrom(datasources, dsIndex) ==
  IF dsIndex > Len(datasources) THEN <<>>
  ELSE [index \in 1..Len(datasources[dsIndex].fields) |->
          [dsIndex |-> dsIndex, index |-> index, field |-> datasources[dsIndex].fields[index]]]
       \o FlatFieldsFrom(datasources, dsIndex + 1)

FlatFields(m) == FlatFieldsFrom(m.datasources, 1)

cleanInternalId(rawId) ==
  IF ~Truthy(rawId) THEN <<>> ELSE Trim(RemoveChars(Trim(rawId), NAME_NORMALIZER))

\* canonicalId's loop giving up on the numeric suffixes at the first collision
canonicalIdLoop_RandomAtOnce(fallback, counter, prefix, slug, used, entropy) ==
  IF fallback \notin used THEN fallback
  ELSE prefix \o <<":">> \o slug \o <<"-">> \o entropy.now \o <<"-">> \o entropy.random

\* one test of the while condition of canonicalId and, when it holds, one pass
\* through the body: either the call returns id, or the loop goes on with the
\* next fallback; entropy is what Date.now() and Math.random() give
canonicalIdTurn(fallback, counter, prefix, slug, used, entropy) ==
  IF fallback \notin used THEN [returned |-> TRUE, id |-> fallback, counter |-> counter]
  ELSE IF counter > MAX_ITERATIONS
       THEN [returned |-> TRUE,
             id |-> prefix \o <<":">> \o slug \o <<"-">> \o entropy.now \o <<"-">> \o entropy.random,
             counter |-> counter]
       ELSE [returned |-> FALSE,
             id |-> prefix \o <<":">> \o slug \o <<"-">> \o NumberToString(counter),
             counter |-> counter + 1]

\* the while loop of canonicalId, run to its return
RECURSIVE canonicalIdLoop(_, _, _, _, _, _)
canonicalIdLoop(fallback, counter, prefix, slug, used, entropy) ==
  LET turn == canonicalIdTurn(fallback, counter, prefix, slug, used, entropy)
  IN IF turn.returned THEN turn.id
     ELSE canonicalIdLoop(turn.id, turn.counter, prefix, slug, used, entropy)

\* canonicalId adopting the internal id without looking it up in usedIds
canonicalId_AdoptsTakenId(rawId, prefix, baseName, used, entropy) ==
  LET candidate == cleanInternalId(rawId)
      numbered == prefix \o <<"-">> \o NumberToString(Cardinality(used) + 1)
      base == IF Truthy(baseName) THEN baseName ELSE numbered
      slug0 == slugify(base)
      slug == IF slug0 = <<>> THEN numbered ELSE slug0
  IN IF Truthy(candidate) THEN candidate
     ELSE canonicalIdLoop(prefix \o <<":">> \o slug, 2, prefix, slug, used, entropy)

\* canonicalId up to its while loop: either it returns the cleaned internal id,
\* or it enters the loop with the first fallback and the slug
canonicalIdEntry(rawId, prefix, baseName, used) ==
  LET candidate == cleanInternalId(rawId)
      numbered == prefix \o <<"-">> \o NumberToString(Cardinality(used) + 1)
      base == IF Truthy(baseName) THEN baseName
              ELSE IF Truthy(candidate) THEN candidate ELSE numbered
      slug0 == slugify(base)
      slug == IF slug0 = <<>> THEN numbered ELSE slug0
  IN IF Truthy(candidate) /\ candidate \notin used
     THEN [returned |-> TRUE, id |-> candidate, slug |-> <<>>]
     ELSE [returned |-> FALSE, id |-> prefix \o <<":">> \o slug, slug |-> slug]

canonicalId(rawId, prefix, baseName, used, entropy) ==
  LET entry == canonicalIdEntry(rawId, prefix, baseName, used)
  IN IF entry.returned THEN entry.id
     ELSE canonicalIdLoop(entry.id, 2, prefix, entry.slug, used, entropy)

\* nameToIds[type].get(key) || []
IdsNamed(map, type, key) ==
  LET hits == SelectSeq(map[type], LAMBDA e : e.key = key)
  IN [i \in 1..Len(hits) |-> hits[i].id]

registerName(map, type, key, id) ==
  [map EXCEPT ![type] = Append(@, [key |-> key, id |-> id])]

\* key under which registerNode files a node
NodeKey(node) == normalizeName(IF Truthy(node.rawName) THEN node.rawName ELSE node.name)

\* addEdge without the edgeKeys lookup
addEdge_NoKeyCheck(acc, source, target, rel) ==
  LET edgeKey == source \o <<"-", ">">> \o target \o <<":">> \o rel IN
  IF ~Truthy(source) \/ ~Truthy(target) THEN acc
  ELSE [edges |-> Append(acc.edges,
                         [id |-> edgeKey, source |-> source, target |-> target, rel |-> rel]),
        edgeKeys |-> acc.edgeKeys \cup {edgeKey}]

addEdge(acc, source, target, rel) ==
  LET edgeKey == source \o <<"-", ">">> \o target \o <<":">> \o rel IN
  IF ~Truthy(source) \/ ~Truthy(target) THEN acc
  ELSE IF edgeKey \in acc.edgeKeys THEN acc
  ELSE [edges |-> Append(acc.edges,
                         [id |-> edgeKey, source |-> source, target |-> target, rel |-> rel]),
        edgeKeys |-> acc.edgeKeys \cup {edgeKey}]

\* a run of addEdge calls, in call order
RECURSIVE addEdges(_, _)
addEdges(acc, calls) ==
  IF calls = <<>> THEN acc
  ELSE addEdges(addEdge(acc, Head(calls).source, Head(calls).target, Head(calls).rel),
                Tail(calls))

Call(source, target, rel) == [source |-> source, target |-> target, rel |-> rel]

\* ids that a calculation's field reference resolves to (graph-builder.js:325)
FeedSourceIds(map, key) ==
  IdsNamed(map, "Field", key) \o IdsNamed(map, "CalculatedField", key)

\* worksheet references resolved without the type priority
UsedInSourceIds_NoPriority(map, key) ==
  IdsNamed(map, "Field", key) \o IdsNamed(map, "CalculatedField", key)

\* ids that a worksheet's field reference resolves to (graph-builder.js:343-345)
UsedInSourceIds(map, key) ==
  LET calcIds == IdsNamed(map, "CalculatedField", key)
      fieldIds == IdsNamed(map, "Field", key)
  IN IF Len(calcIds) > 0 THEN calcIds ELSE fieldIds

HasReferences(field) == "references" \in DOMAIN field

\* the addEdge calls of one iteration of the loop at graph-builder.js:319-335
FeedCalls(map, field) ==
  IF ~(field.is_calculated /\ HasReferences(field)) THEN <<>>
  ELSE LET targetIds == IdsNamed(map, "CalculatedField", normalizeName(field.name))
           refs == field.references.fields
           params == field.references.parameters
           ForTarget(targetId) ==
             Concat([r \in 1..Len(refs) |->
                       LET sourceIds == FeedSourceIds(map, normalizeName(refs[r]))
                       IN [s \in 1..Len(sourceIds) |-> Call(sourceIds[s], targetId, FEEDS)]])
             \o
             Concat([p \in 1..Len(params) |->
                       LET paramIds == IdsNamed(map, "Parameter", normalizeName(params[p]))
                       IN [s \in 1..Len(paramIds) |-> Call(paramIds[s], targetId, PARAM_OF)]])
       IN Concat([t \in 1..Len(targetIds) |-> ForTarget(targetIds[t])])

\* the addEdge calls of one iteration of the loop at graph-builder.js:338-349
UsedInCalls(map, worksheet) ==
  LET worksheetIds == IdsNamed(map, "Worksheet", normalizeName(worksheet.name))
      refs == worksheet.fields_used
      ForSheet(worksheetId) ==
        Concat([r \in 1..Len(refs) |->
                  LET ids == UsedInSourceIds(map, normalizeName(refs[r]))
                  IN [s \in 1..Len(ids) |-> Call(ids[s], worksheetId, USED_IN)]])
  IN Concat([w \in 1..Len(worksheetIds) |-> ForSheet(worksheetIds[w])])

\* the addEdge calls of one iteration of the loop at graph-builder.js:351-359
OnCalls(map, dashboard) ==
  LET dashboardIds == IdsNamed(map, "Dashboard", normalizeName(dashboard.name))
      refs == dashboard.worksheets
      ForDashboard(dashboardId) ==
        Concat([r \in 1..Len(refs) |->
                  LET worksheetIds == IdsNamed(map, "Worksheet", normalizeName(refs[r]))
                  IN [s \in 1..Len(worksheetIds) |-> Call(worksheetIds[s], dashboardId, ON)]])
  IN Concat([d \in 1..Len(dashboardIds) |-> ForDashboard(dashboardIds[d])])

(***************************************************************************)
(* detectCycles (parsers module), which buildGraph calls before it returns. *)
(***************************************************************************)
\* the keys of adjList in insertion order
adjListKeys(graph) == [i \in 1..Len(graph.nodes) |-> graph.nodes[i].id]

\* adjList.get(nodeId) || []
RECURSIVE neighborsFrom(_, _, _)
neighborsFrom(graph, nodeId, i) ==
  IF i > Len(graph.edges) THEN <<>>
  ELSE LET edge == graph.edges[i]
           rest == neighborsFrom(graph, nodeId, i + 1)
       IN  IF edge.source = nodeId /\ nodeId \in Range(adjListKeys(graph))
           THEN <<edge.target>> \o rest
           ELSE rest

neighborsOf(graph, nodeId) == neighborsFrom(graph, nodeId, 1)

\* path.indexOf(x), 0-based as in the code, -1 when absent
indexOf(path, x) ==
  IF \E i \in 1..Len(path) : path[i] = x
  THEN (CHOOSE i \in 1..Len(path) : path[i] = x /\ \A k \in 1..(i - 1) : path[k] # x) - 1
  ELSE -1

\* path.slice(start), start 0-based
slice(path, start) == SubSeq(path, start + 1, Len(path))

\* dfs(nodeId, path): st carries visited, recStack and cycles, which the
\* closure shares between its calls
RECURSIVE dfs(_, _, _, _), dfsNeighbors(_, _, _, _, _)
dfs_FreshPath(graph, nodeId, path, st) ==
  LET entered == [visited |-> st.visited \cup {nodeId},
                  recStack |-> st.recStack \cup {nodeId},
                  cycles |-> st.cycles]
      after == dfsNeighbors(graph, nodeId, <<nodeId>>, 1, entered)
  IN  [after EXCEPT !.recStack = after.recStack \ {nodeId}]

dfs(graph, nodeId, path, st) ==
  LET entered == [visited |-> st.visited \cup {nodeId},
                  recStack |-> st.recStack \cup {nodeId},
                  cycles |-> st.cycles]
      after == dfsNeighbors(graph, nodeId, Append(path, nodeId), 1, entered)
  IN  [after EXCEPT !.recStack = after.recStack \ {nodeId}]

dfsNeighbors(graph, nodeId, path, i, st) ==
  LET neighbors == neighborsOf(graph, nodeId) IN
  IF i > Len(neighbors) THEN st
  ELSE LET neighbor == neighbors[i]
           next ==
             IF neighbor \notin st.visited THEN dfs(graph, neighbor, path, st)
             ELSE IF neighbor \in st.recStack THEN
               LET cycleStart == indexOf(path, neighbor) IN
               IF cycleStart >= 0
               THEN [st EXCEPT !.cycles = Append(@, Append(slice(path, cycleStart), neighbor))]
               ELSE st
             ELSE st
       IN  dfsNeighbors(graph, nodeId, path, i + 1, next)

\* adjList.forEach((_, nodeId) => { if (!visited.has(nodeId)) dfs(nodeId, []) })
RECURSIVE dfsRoots(_, _, _)
\* the search started from the first key only
dfsRoots_FirstKeyOnly(graph, i, st) ==
  LET keys == adjListKeys(graph) IN
  IF i > Len(keys) THEN st ELSE dfs(graph, keys[i], <<>>, st)

dfsRoots(graph, i, st) ==
  LET keys == adjListKeys(graph) IN
  IF i > Len(keys) THEN st
  ELSE dfsRoots(graph, i + 1,
                IF keys[i] \notin st.visited THEN dfs(graph, keys[i], <<>>, st) ELSE st)

detectCycles(graph) ==
  dfsRoots(graph, 1, [visited |-> {}, recStack |-> {}, cycles |-> <<>>]).cycles

(***************************************************************************)
(* buildGraph as a state machine: its loops in source order.               *)
(***************************************************************************)
Phases == <<"fields", "parameters", "worksheets", "dashboards",
            "feeds", "usedIn", "on", "return", "done">>

PhaseLength(m, phase) ==
  CASE phase = "fields" -> Len(FlatFields(m))
    [] phase = "parameters" -> Len(m.parameters)
    [] phase = "worksheets" -> Len(m.worksheets)
    [] phase = "dashboards" -> Len(m.dashboards)
    [] phase = "feeds" -> Len(FlatFields(m))
    [] phase = "usedIn" -> Len(m.worksheets)
    [] phase = "on" -> Len(m.dashboards)
    [] OTHER -> 1

\* the loop and index at which control is next: a forEach over nothing is passed over
RECURSIVE Settle(_, _, _)
Settle(m, p, i) ==
  IF Phases[p] = "done" \/ i <= PhaseLength(m, Phases[p])
  THEN [pc |-> Phases[p], cursor |-> i]
  ELSE Settle(m, p + 1, 1)

PhaseIndex(phase) == CHOOSE p \in 1..Len(Phases) : Phases[p] = phase

Advance ==
  LET next == Settle(meta, PhaseIndex(pc), cursor + 1) IN
  /\ pc' = next.pc
  /\ cursor' = next.cursor

EmptyNameToIds == [type \in NodeTypes |-> <<>>]

\* graph-builder.js:32-67, the collections buildGraph starts from
\* buildGraph has not returned
NoReturn == [returned |-> FALSE, cycles |-> <<>>, graph |-> [nodes |-> <<>>, edges |-> <<>>]]

EnterBuildGraph(m) ==
  LET start == Settle(m, 1, 1) IN
  /\ pc' = start.pc
  /\ cursor' = start.cursor
  /\ nodes' = <<>>
  /\ edges' = <<>>
  /\ edgeKeys' = {}
  /\ usedIds' = {}
  /\ nameToIds' = EmptyNameToIds
  /\ buildReturn' = NoReturn

Datasources(fs, k) ==
  IF Len(fs) = 0 THEN <<>>
  ELSE IF k = Len(fs) THEN <<[fields |-> fs]>>
  ELSE <<[fields |-> SubSeq(fs, 1, k)], [fields |-> SubSeq(fs, k + 1, Len(fs))]>>

\* every metadata object of at most MaxEntities entities, its fields in one or two datasources
\* the metadata objects with a fields, b parameters, c worksheets and d
\* dashboards
Metas(a, b, c, d) ==
  {[datasources |-> Datasources(fs, k), parameters |-> ps,
    worksheets |-> ws, dashboards |-> ds] :
     k \in (IF a = 0 THEN {0} ELSE 1..a),
     fs \in [1..a -> FieldPool], ps \in [1..b -> ParameterPool],
     ws \in [1..c -> WorksheetPool], ds \in [1..d -> DashboardPool]}

NoHood == [node |-> 0, depth |-> 0, result |-> {}]

IdleHood ==
  /\ cyEdges = {}
  /\ neighborhoods = {}
  /\ hood = NoHood

IdleCycles ==
  /\ cycleGraph = [nodes |-> <<>>, edges |-> <<>>]
  /\ cpc = "returned"
  /\ cycles = <<>>

IdleLayout ==
  /\ cyNodes = <<>>
  /\ cyLinks = {}
  /\ positions = <<>>
  /\ layoutHistory = <<>>
  /\ layoutHistoryIndex = -1
  /\ rank = {}
  /\ dist = {}
  /\ lastCall = "none"
  /\ positionsBefore = <<>>
  /\ layoutRuns = 0

NoLookups == [workbook |-> 0, builtBy |-> "none"]

IdleLoad ==
  /\ uploads = <<>>
  /\ isProcessingFile = FALSE
  /\ stateMeta = 0
  /\ stateGraph = 0
  /\ lookups = NoLookups
  /\ cyReady = TRUE

NoCanon == [pc |-> "idle"]

IdleCanon == canon = NoCanon

IdleReload == cleared = {}

IdleEdgeCalls == edgeCalls = <<>>

IdleRest ==
  /\ IdleCanon
  /\ IdleReload
  /\ IdleEdgeCalls

IdleLater ==
  /\ IdleRest
  /\ IdleHood
  /\ IdleCycles
  /\ IdleLayout
  /\ IdleLoad

IdleBuild ==
  /\ meta = [datasources |-> <<>>, parameters |-> <<>>, worksheets |-> <<>>, dashboards |-> <<>>]
  /\ pc = "done"
  /\ cursor = 1
  /\ nodes = <<>>
  /\ edges = <<>>
  /\ edgeKeys = {}
  /\ usedIds = {}
  /\ nameToIds = EmptyNameToIds
  /\ run = 2
  /\ firstIds = <<>>
  /\ buildReturn = NoReturn

IdleNormalize ==
  /\ rawGraph = [nodes |-> <<>>, edges |-> <<>>]
  /\ npc = "done"
  /\ ncursor = 1
  /\ normalizedNodes = <<>>
  /\ normalizedEdges = <<>>
  /\ nodeIds = {}
  /\ edgeIds = {}

IdleExtract ==
  /\ formula = <<>>
  /\ xpc = "returned"
  /\ extracted = [fields |-> <<>>, parameters |-> <<>>]

InitBuild ==
  /\ \E a \in 0..MaxEntities : \E b \in 0..(MaxEntities - a) :
       \E c \in 0..(MaxEntities - a - b) : \E d \in 0..(MaxEntities - a - b - c) :
         meta \in Metas(a, b, c, d)
  /\ pc = Settle(meta, 1, 1).pc
  /\ cursor = Settle(meta, 1, 1).cursor
  /\ nodes = <<>>
  /\ edges = <<>>
  /\ edgeKeys = {}
  /\ usedIds = {}
  /\ nameToIds = EmptyNameToIds
  /\ run = 1
  /\ firstIds = <<>>
  /\ buildReturn = NoReturn
  /\ IdleNormalize
  /\ IdleExtract
  /\ IdleLater

BuildFrame == UNCHANGED <<normVars, extractVars, laterVars>>

\* registerNode (the part that feeds the graph and the caption index)
registerNode(node) ==
  /\ nodes' = Append(nodes, node)
  /\ nameToIds' = registerName(nameToIds, node.type, NodeKey(node), node.id)

FieldBaseName(item) ==
  IF Truthy(item.field.name) THEN item.field.name
  ELSE <<"F","i","e","l","d"," ">> \o NumberToString(item.dsIndex)
       \o <<".">> \o NumberToString(item.index)

OrdinalName(label, name, index) ==
  IF Truthy(name) THEN name ELSE label \o <<" ">> \o NumberToString(index)

\* one iteration of graph-builder.js:229-268
RegisterField ==
  /\ pc = "fields"
  /\ \E now \in Timestamps, random \in RandomTokens :
       LET item == FlatFields(meta)[cursor]
           isCalc == item.field.is_calculated
           baseName == FieldBaseName(item)
           internalId == canonicalId(item.field.rawId,
                                     IF isCalc THEN <<"c","a","l","c">> ELSE <<"f","i","e","l","d">>,
                                     baseName, usedIds, [now |-> now, random |-> random])
       IN /\ usedIds' = usedIds \cup {internalId}
          /\ registerNode([id |-> internalId,
                           type |-> IF isCalc THEN "CalculatedField" ELSE "Field",
                           name |-> displayName(baseName), rawName |-> baseName])
  /\ Advance
  /\ UNCHANGED <<meta, edges, edgeKeys, run, firstIds, buildReturn>>
  /\ BuildFrame

\* one iteration of graph-builder.js:270-285
RegisterParameter ==
  /\ pc = "parameters"
  /\ \E now \in Timestamps, random \in RandomTokens :
       LET parameter == meta.parameters[cursor]
           baseName == OrdinalName(<<"P","a","r","a","m","e","t","e","r">>, parameter.name, cursor)
           internalId == canonicalId(parameter.rawId, <<"p","a","r","a","m">>, baseName,
                                     usedIds, [now |-> now, random |-> random])
       IN /\ usedIds' = usedIds \cup {internalId}
          /\ registerNode([id |-> internalId, type |-> "Parameter",
                           name |-> displayName(baseName), rawName |-> baseName])
  /\ Advance
  /\ UNCHANGED <<meta, edges, edgeKeys, run, firstIds, buildReturn>>
  /\ BuildFrame

\* one iteration of graph-builder.js:287-301
RegisterWorksheet ==
  /\ pc = "worksheets"
  /\ \E now \in Timestamps, random \in RandomTokens :
       LET worksheet == meta.worksheets[cursor]
           baseName == OrdinalName(<<"W","o","r","k","s","h","e","e","t">>, worksheet.name, cursor)
           internalId == canonicalId(worksheet.rawId, <<"w","s">>, baseName,
                                     usedIds, [now |-> now, random |-> random])
       IN /\ usedIds' = usedIds \cup {internalId}
          /\ registerNode([id |-> internalId, type |-> "Worksheet",
                           name |-> baseName, rawName |-> baseName])
  /\ Advance
  /\ UNCHANGED <<meta, edges, edgeKeys, run, firstIds, buildReturn>>
  /\ BuildFrame

\* one iteration of graph-builder.js:303-316
RegisterDashboard ==
  /\ pc = "dashboards"
  /\ \E now \in Timestamps, random \in RandomTokens :
       LET dashboard == meta.dashboards[cursor]
           baseName == OrdinalName(<<"D","a","s","h","b","o","a","r","d">>, dashboard.name, cursor)
           internalId == canonicalId(dashboard.rawId, <<"d","b">>, baseName,
                                     usedIds, [now |-> now, random |-> random])
       IN /\ usedIds' = usedIds \cup {internalId}
          /\ registerNode([id |-> internalId, type |-> "Dashboard",
                           name |-> baseName, rawName |-> baseName])
  /\ Advance
  /\ UNCHANGED <<meta, edges, edgeKeys, run, firstIds, buildReturn>>
  /\ BuildFrame

AddAll(calls) ==
  LET acc == addEdges([edges |-> edges, edgeKeys |-> edgeKeys], calls) IN
  /\ edges' = acc.edges
  /\ edgeKeys' = acc.edgeKeys

\* one iteration of graph-builder.js:318-336
LinkCalculation ==
  /\ pc = "feeds"
  /\ AddAll(FeedCalls(nameToIds, FlatFields(meta)[cursor].field))
  /\ Advance
  /\ UNCHANGED <<meta, nodes, usedIds, nameToIds, run, firstIds, buildReturn>>
  /\ BuildFrame

\* one iteration of graph-builder.js:338-349
LinkWorksheet ==
  /\ pc = "usedIn"
  /\ AddAll(UsedInCalls(nameToIds, meta.worksheets[cursor]))
  /\ Advance
  /\ UNCHANGED <<meta, nodes, usedIds, nameToIds, run, firstIds, buildReturn>>
  /\ BuildFrame

\* one iteration of graph-builder.js:351-359
LinkDashboard ==
  /\ pc = "on"
  /\ AddAll(OnCalls(nameToIds, meta.dashboards[cursor]))
  /\ Advance
  /\ UNCHANGED <<meta, nodes, usedIds, nameToIds, run, firstIds, buildReturn>>
  /\ BuildFrame

\* graph-builder.js:367-382: the graph is returned as built
\* the graph handed back with the edges of the logged cycles left out
buildGraphReturn_WithoutCycles(graph, found) ==
  [nodes |-> graph.nodes,
   edges |-> SelectSeq(graph.edges,
                       LAMBDA e : \A i \in 1..Len(found) : e.source \notin Range(found[i]))]

\* graph-builder.js:369-381: the cycles are logged, `return graph`
buildGraphReturn(graph, found) == graph

\* graph-builder.js:361-381
ReturnGraph ==
  /\ pc = "return"
  /\ pc' = "done"
  /\ LET graph == [nodes |-> nodes, edges |-> edges]
         found == detectCycles(graph)
     IN buildReturn' = [returned |-> TRUE, cycles |-> found,
                        graph |-> buildGraphReturn(graph, found)]
  /\ UNCHANGED <<meta, cursor, nodes, edges, edgeKeys, usedIds, nameToIds, run, firstIds>>
  /\ BuildFrame

NodeIdsOf(ns) == [i \in 1..Len(ns) |-> ns[i].id]

\* buildGraph called again with the same metadata object
BuildAgain ==
  /\ pc = "done"
  /\ run = 1
  /\ run' = 2
  /\ firstIds' = NodeIdsOf(nodes)
  /\ EnterBuildGraph(meta)
  /\ UNCHANGED meta
  /\ BuildFrame

NextBuild ==
  \/ RegisterField
  \/ RegisterParameter
  \/ RegisterWorksheet
  \/ RegisterDashboard
  \/ LinkCalculation
  \/ LinkWorksheet
  \/ LinkDashboard
  \/ ReturnGraph
  \/ BuildAgain

SpecBuild == InitBuild /\ [][NextBuild]_vars

(***************************************************************************)
(* normalizeGraph                                                          *)
(***************************************************************************)
NoData == [id |-> Undefined, name |-> Undefined, type |-> Undefined]

NoEdgeData ==
  [id |-> Undefined, source |-> Undefined, target |-> Undefined,
   rel |-> Undefined, label |-> Undefined]

\* what is not an object: null, a number, a string
InvalidEntry == [kind |-> "invalid"]

RawNode(id, name, type, data) ==
  [kind |-> "object", id |-> id, name |-> name, type |-> type, data |-> data]

RawEdge(id, source, target, rel, data) ==
  [kind |-> "object", id |-> id, source |-> source, target |-> target, rel |-> rel,
   label |-> Undefined, type |-> Undefined, data |-> data]

RawNodePool ==
  { RawNode(<<"A">>, Undefined, <<"F","i","e","l","d">>, NoData),
    RawNode(<<" ","A"," ">>, <<" ","a"," ">>, Undefined, NoData),
    RawNode(Undefined, <<" ">>, Undefined,
            [id |-> <<"B">>, name |-> <<"b">>, type |-> <<"W","o","r","k","s","h","e","e","t">>]),
    RawNode(<<>>, <<"c">>, Undefined, [NoData EXCEPT !.id = <<"C">>]),
    InvalidEntry }

RawEdgePool ==
  { RawEdge(Undefined, <<"A">>, <<"B">>, FEEDS, NoEdgeData),
    RawEdge(<<"A","-",">","B">>, <<" ","A">>, <<"B"," ">>, Undefined,
            [NoEdgeData EXCEPT !.label = USED_IN]),
    RawEdge(<<"A","-",">","B","#","2">>, Undefined, <<"A">>, Undefined,
            [NoEdgeData EXCEPT !.source = <<"B">>, !.target = <<"B">>]),
    RawEdge(Undefined, <<"A">>, <<"X">>, FEEDS, NoEdgeData),
    RawEdge(Undefined, <<"A">>, Undefined, FEEDS, NoEdgeData),
    InvalidEntry }

\* a || b on strings
Or(a, b) == IF Truthy(a) THEN a ELSE b

\* if (typeof v === 'string') v = v.trim()
Trimmed(v) == IF v = Undefined THEN v ELSE Trim(v)

\* graph-builder.js:413-414
nodeIdOf(rawNode) ==
  Trimmed(IF rawNode.id # Undefined THEN rawNode.id ELSE rawNode.data.id)

\* is a string with something other than white space in it
NonBlank(v) == v # Undefined /\ Trim(v) # <<>>

\* graph-builder.js:426-441
normalizedNode(rawNode, id) ==
  LET nameSource == IF NonBlank(rawNode.name) THEN rawNode.name ELSE rawNode.data.name
      name == IF NonBlank(nameSource) THEN Trim(nameSource) ELSE id
      type == Or(rawNode.type, Or(rawNode.data.type, <<"U","n","k","n","o","w","n">>))
  IN [id |-> id, name |-> name, type |-> type,
      data |-> [id |-> id, name |-> name, type |-> type]]

\* an endpoint read from the data object alone
edgeEndpoint_DataOnly(own, fromData) == Trimmed(fromData)

\* graph-builder.js:456-459
edgeEndpoint(own, fromData) == Trimmed(Or(own, fromData))

\* only the source looked up in nodeIds
edgeSkipped_SourceOnly(rawEdge, ids) ==
  \/ rawEdge.kind # "object"
  \/ LET source == edgeEndpoint(rawEdge.source, rawEdge.data.source)
         target == edgeEndpoint(rawEdge.target, rawEdge.data.target)
     IN \/ ~Truthy(source) \/ ~Truthy(target)
        \/ source \notin ids

\* graph-builder.js:450-469: the three early returns of the edge loop
edgeSkipped(rawEdge, ids) ==
  \/ rawEdge.kind # "object"
  \/ LET source == edgeEndpoint(rawEdge.source, rawEdge.data.source)
         target == edgeEndpoint(rawEdge.target, rawEdge.data.target)
     IN \/ ~Truthy(source) \/ ~Truthy(target)
        \/ source \notin ids \/ target \notin ids

\* graph-builder.js:477-482
RECURSIVE dedupeCandidate(_, _, _)
dedupeCandidate(id, dedupeIndex, taken) ==
  LET candidate == id \o <<"#">> \o NumberToString(dedupeIndex) IN
  IF candidate \in taken THEN dedupeCandidate(id, dedupeIndex + 1, taken) ELSE candidate

\* the edge id taken as it comes, without the lookup in edgeIds
edgeIdOf_NoLookup(rawEdge, source, target, taken) ==
  LET given == Trimmed(Or(rawEdge.id, rawEdge.data.id))
  IN IF Truthy(given) THEN given ELSE source \o <<"-", ">">> \o target

\* graph-builder.js:471-485
edgeIdOf(rawEdge, source, target, taken) ==
  LET given == Trimmed(Or(rawEdge.id, rawEdge.data.id))
      id == IF Truthy(given) THEN given ELSE source \o <<"-", ">">> \o target
  IN IF id \in taken THEN dedupeCandidate(id, 2, taken) ELSE id

\* graph-builder.js:487
edgeRelOf(rawEdge) ==
  Or(rawEdge.rel, Or(rawEdge.label, Or(rawEdge.data.rel, Or(rawEdge.data.label,
     Or(rawEdge.type, <<>>)))))

\* the payloads of n raw nodes and e raw edges
RawGraphs(n, e) ==
  {[nodes |-> ns, edges |-> es] :
     ns \in [1..n -> RawNodePool], es \in [1..e -> RawEdgePool]}

NormalizePhase(g, phase, i) ==
  IF phase = "nodes" /\ i <= Len(g.nodes) THEN [npc |-> "nodes", ncursor |-> i]
  ELSE IF phase = "nodes" THEN
       (IF Len(g.edges) >= 1 THEN [npc |-> "edges", ncursor |-> 1]
        ELSE [npc |-> "return", ncursor |-> 1])
  ELSE IF phase = "edges" /\ i <= Len(g.edges) THEN [npc |-> "edges", ncursor |-> i]
  ELSE [npc |-> "return", ncursor |-> 1]

InitNormalize ==
  /\ \E n \in 0..MaxRawNodes, e \in 0..MaxRawEdges : rawGraph \in RawGraphs(n, e)
  /\ npc = NormalizePhase(rawGraph, "nodes", 1).npc
  /\ ncursor = NormalizePhase(rawGraph, "nodes", 1).ncursor
  /\ normalizedNodes = <<>>
  /\ normalizedEdges = <<>>
  /\ nodeIds = {}
  /\ edgeIds = {}
  /\ IdleBuild
  /\ IdleExtract
  /\ IdleLater

NormalizeFrame == UNCHANGED <<buildVars, extractVars, laterVars>>

NormalizeAdvance ==
  LET next == NormalizePhase(rawGraph, npc, ncursor + 1) IN
  /\ npc' = next.npc
  /\ ncursor' = next.ncursor

\* one iteration of graph-builder.js:406-445
NormalizeNode ==
  /\ npc = "nodes"
  /\ LET rawNode == rawGraph.nodes[ncursor] IN
     IF rawNode.kind # "object" THEN UNCHANGED <<normalizedNodes, nodeIds>>
     ELSE LET id == nodeIdOf(rawNode) IN
          IF ~Truthy(id) \/ id \in nodeIds THEN UNCHANGED <<normalizedNodes, nodeIds>>
          ELSE /\ normalizedNodes' = Append(normalizedNodes, normalizedNode(rawNode, id))
               /\ nodeIds' = nodeIds \cup {id}
  /\ NormalizeAdvance
  /\ UNCHANGED <<rawGraph, normalizedEdges, edgeIds>>
  /\ NormalizeFrame

\* one iteration of graph-builder.js:449-507; rawIndex records which raw edge the
\* normalized edge is the spread of
NormalizeEdge ==
  /\ npc = "edges"
  /\ LET rawEdge == rawGraph.edges[ncursor] IN
     IF edgeSkipped(rawEdge, nodeIds) THEN UNCHANGED <<normalizedEdges, edgeIds>>
     ELSE LET source == edgeEndpoint(rawEdge.source, rawEdge.data.source)
              target == edgeEndpoint(rawEdge.target, rawEdge.data.target)
              id == edgeIdOf(rawEdge, source, target, edgeIds)
              rel == edgeRelOf(rawEdge)
          IN /\ normalizedEdges' =
                  Append(normalizedEdges,
                         [id |-> id, source |-> source, target |-> target, rel |-> rel,
                          data |-> [id |-> id, source |-> source, target |-> target,
                                    rel |-> rel,
                                    label |-> Or(rawEdge.data.label, Or(rawEdge.label, rel))],
                          rawIndex |-> ncursor])
             /\ edgeIds' = edgeIds \cup {id}
  /\ NormalizeAdvance
  /\ UNCHANGED <<rawGraph, normalizedNodes, nodeIds>>
  /\ NormalizeFrame

\* graph-builder.js:509-510
ReturnNormalized ==
  /\ npc = "return"
  /\ npc' = "done"
  /\ UNCHANGED <<rawGraph, ncursor, normalizedNodes, normalizedEdges, nodeIds, edgeIds>>
  /\ NormalizeFrame

NextNormalize ==
  \/ NormalizeNode
  \/ NormalizeEdge
  \/ ReturnNormalized

SpecNormalize == InitNormalize /\ [][NextNormalize]_vars

(***************************************************************************)
(* extractCalculationReferences                                            *)
(***************************************************************************)
\* s.indexOf(c, i), 1-based; 0 when there is none
RECURSIVE IndexFrom(_, _, _)
IndexFrom(s, c, i) ==
  IF i > Len(s) THEN 0 ELSE IF s[i] = c THEN i ELSE IndexFrom(s, c, i + 1)

\* formula.match(/\[[^\]]+\]/g): leftmost matches, none overlapping
RECURSIVE fieldMatchesFrom(_, _)
fieldMatchesFrom(s, i) ==
  IF i > Len(s) THEN <<>>
  ELSE IF s[i] # "[" THEN fieldMatchesFrom(s, i + 1)
  ELSE LET close == IndexFrom(s, "]", i + 1) IN
       IF close = 0 THEN <<>>
       ELSE IF close = i + 1 THEN fieldMatchesFrom(s, i + 1)
       ELSE <<SubSeq(s, i, close)>> \o fieldMatchesFrom(s, close + 1)

\* formula.match(/\[:[^\]]+\]/g)
RECURSIVE parameterMatchesFrom(_, _)
parameterMatchesFrom(s, i) ==
  IF i + 1 > Len(s) THEN <<>>
  ELSE IF s[i] # "[" \/ s[i + 1] # ":" THEN parameterMatchesFrom(s, i + 1)
  ELSE LET close == IndexFrom(s, "]", i + 2) IN
       IF close = 0 THEN <<>>
       ELSE IF close = i + 2 THEN parameterMatchesFrom(s, i + 1)
       ELSE <<SubSeq(s, i, close)>> \o parameterMatchesFrom(s, close + 1)

\* Array.from(new Set(values)): first occurrences, in order
RECURSIVE Distinct(_)
Distinct(values) ==
  IF values = <<>> THEN <<>>
  ELSE LET front == Distinct(SubSeq(values, 1, Len(values) - 1))
           last == values[Len(values)]
       IN IF last \in Range(front) THEN front ELSE Append(front, last)

extractCalculationReferences(f) ==
  IF ~Truthy(f) THEN [fields |-> <<>>, parameters |-> <<>>]
  ELSE LET fieldMatches == fieldMatchesFrom(f, 1)
           parameterMatches == parameterMatchesFrom(f, 1)
           names == [i \in 1..Len(parameterMatches) |->
                       Trim(RemoveChars(parameterMatches[i], {"[", "]", ":"}))]
       IN [fields |-> Distinct([i \in 1..Len(fieldMatches) |-> Trim(fieldMatches[i])]),
           parameters |-> Distinct(SelectSeq(names, LAMBDA n : n # <<>>))]

sSalesGrowth == <<"[","S","a","l","e","s","]","+","[",":","G","r","o","w","t","h","R","a","t","e","]">>

FormulaChars == {"[", "]", ":", "a", " "}

Formulas ==
  UNION {[1..n -> FormulaChars] : n \in 0..MaxFormulaLen} \cup {sSalesGrowth}

InitExtract ==
  /\ formula \in Formulas
  /\ xpc = "call"
  /\ extracted = [fields |-> <<>>, parameters |-> <<>>]
  /\ IdleBuild
  /\ IdleNormalize
  /\ IdleLater

\* the call of extractCalculationReferences(formula)
Extract ==
  /\ xpc = "call"
  /\ extracted' = extractCalculationReferences(formula)
  /\ xpc' = "returned"
  /\ UNCHANGED <<formula, buildVars, normVars, laterVars>>

NextExtract == Extract

SpecExtract == InitExtract /\ [][NextExtract]_vars

(***************************************************************************)
(* getNeighborhood (src/src/filters.js) over the rendered graph.  A        *)
(* collection is a set of elements, nodes and edges alike, as in the       *)
(* graph library: its length counts both.                                  *)
(***************************************************************************)
MinSafeDepth == 1
MaxSafeDepth == 10

HoodNodes == 1..MaxHoodNodes

nodeElement(n) == [group |-> "nodes", source |-> n, target |-> n]
edgeElement(s, t) == [group |-> "edges", source |-> s, target |-> t]

CyGraphs ==
  {g \in SUBSET (HoodNodes \X HoodNodes) : Cardinality(g) <= MaxHoodEdges}

\* collection.neighborhood(): for each node of the collection, its connected
\* edges and their other endpoints
neighborhood(collection, g) ==
  LET members == {el.source : el \in {x \in collection : x.group = "nodes"}}
      connectedEdges == {e \in g : e[1] \in members \/ e[2] \in members}
  IN  {edgeElement(e[1], e[2]) : e \in connectedEdges}
        \cup {nodeElement(e[1]) : e \in connectedEdges}
        \cup {nodeElement(e[2]) : e \in connectedEdges}

\* collection.closedNeighborhood(): the neighborhood and the collection itself
closedNeighborhood(collection, g) == neighborhood(collection, g) \cup collection

safeDepth_Wraps(depth) == ((depth - 1) % 2) + 1

\* Math.min(Math.max(1, depth), 10)
safeDepth(depth) ==
  LET atLeast == IF depth > MinSafeDepth THEN depth ELSE MinSafeDepth
  IN  IF atLeast < MaxSafeDepth THEN atLeast ELSE MaxSafeDepth

\* the for loop of getNeighborhood, entered with the loop variable at i
RECURSIVE expandHood(_, _, _, _)
expandHood(current, i, depth, g) ==
  IF ~(i < depth) THEN current
  ELSE IF i > MAX_ITERATIONS THEN current
  ELSE LET newHood == current \cup closedNeighborhood(current, g) IN
       IF Cardinality(newHood) = Cardinality(current) THEN current
       ELSE expandHood(newHood, i + 1, depth, g)

\* the function getNeighborhood hands to memoize
computeHood(n, depth, g) ==
  expandHood(closedNeighborhood({nodeElement(n)}, g), 1, depth, g)

cacheKey_DepthOnly(n, depth) == [node |-> 0, depth |-> depth]

\* `${nodeId}:${safeDepth}`
cacheKey(n, depth) == [node |-> n, depth |-> depth]

cacheHas(cache, key) == \E entry \in cache : entry.key = key
cacheGet(cache, key) == (CHOOSE entry \in cache : entry.key = key).result

\* what getNeighborhood(n, depth) returns with this cache and this graph
getNeighborhood(n, depth, cache, g) ==
  LET key == cacheKey(n, safeDepth(depth)) IN
  IF cacheHas(cache, key) THEN cacheGet(cache, key)
  ELSE computeHood(n, safeDepth(depth), g)

Depths == (MinSafeDepth - 1)..(MaxSafeDepth + 1)

InitHood ==
  /\ cyEdges \in CyGraphs
  /\ neighborhoods = {}
  /\ hood = NoHood
  /\ IdleBuild
  /\ IdleNormalize
  /\ IdleExtract
  /\ IdleCycles
  /\ IdleLayout
  /\ IdleLoad
  /\ IdleRest

HoodFrame ==
  UNCHANGED <<buildVars, normVars, extractVars, cycleVars, layoutVars, loadVars, restVars>>

\* one call of getNeighborhood(node, depth), memoize included
GetNeighborhoodAt(n, depth) ==
  LET key == cacheKey(n, safeDepth(depth))
      result == getNeighborhood(n, depth, neighborhoods, cyEdges)
  IN  /\ Cardinality(neighborhoods) < MaxCached \/ cacheHas(neighborhoods, key)
      /\ neighborhoods' =
           IF cacheHas(neighborhoods, key) THEN neighborhoods
           ELSE neighborhoods \cup {[key |-> key, result |-> result]}
      /\ hood' = [node |-> n, depth |-> depth, result |-> result]
      /\ UNCHANGED cyEdges
      /\ HoodFrame

GetNeighborhood == \E n \in HoodNodes, depth \in Depths : GetNeighborhoodAt(n, depth)

NextHood == GetNeighborhood

SpecHood == InitHood /\ [][NextHood]_vars

(***************************************************************************)
(* drawGraph (ui-handlers module) replacing the rendered graph between     *)
(* calls of getNeighborhood.                                               *)
(***************************************************************************)
\* clearMemoCache() leaving the cached neighborhoods in place
clearMemoCache_KeepsNeighborhoods(cache) == cache

\* state.memoCache.neighborhoods?.clear()
clearMemoCache(cache) == {}

\* the depths the focus calls ask for between two loads
ReloadDepths == MinSafeDepth..(MinSafeDepth + 1)

InitReload ==
  /\ cyEdges \in CyGraphs
  /\ neighborhoods = {}
  /\ hood = NoHood
  /\ cleared = {}
  /\ IdleBuild
  /\ IdleNormalize
  /\ IdleExtract
  /\ IdleCycles
  /\ IdleLayout
  /\ IdleLoad
  /\ IdleCanon
  /\ IdleEdgeCalls

ReloadFrame ==
  UNCHANGED <<buildVars, normVars, extractVars, cycleVars, layoutVars, loadVars, canonVars,
              edgeCallVars>>

\* focusOnNode(id, {depth}) on the graph on screen
FocusOnNode == \E n \in HoodNodes, depth \in ReloadDepths : GetNeighborhoodAt(n, depth)

\* drawGraph(graph) with state.cy in place: the caches are cleared, then the
\* elements are replaced by those of the new graph
DrawGraph ==
  /\ \E graph \in CyGraphs : cyEdges' = graph
  /\ neighborhoods' = clearMemoCache(neighborhoods)
  /\ cleared' = neighborhoods
  /\ hood' = NoHood
  /\ ReloadFrame

\* drawGraph(graph) with something that is not a graph: the caches are
\* cleared, the error is thrown before the elements are touched
DrawGraphThrows ==
  /\ neighborhoods' = clearMemoCache(neighborhoods)
  /\ cleared' = neighborhoods
  /\ UNCHANGED <<cyEdges, hood>>
  /\ ReloadFrame

NextReload ==
  \/ FocusOnNode
  \/ DrawGraph
  \/ DrawGraphThrows

SpecReload == InitReload /\ [][NextReload]_vars

(***************************************************************************)
(* detectCycles (parsers module).                                          *)
(***************************************************************************)
CycleIds == 1..MaxCycleNodes

\* injective sequences of elements of S, at most n long
RECURSIVE OrderedPicks(_, _)
OrderedPicks(S, n) ==
  IF n = 0 THEN {<<>>}
  ELSE LET shorter == OrderedPicks(S, n - 1)
           longest == {q \in shorter : Len(q) = n - 1}
       IN  shorter \cup {Append(p[1], p[2]) :
                           p \in {p \in longest \X S : p[2] \notin Range(p[1])}}

\* the graphs of at most maxNodes nodes and maxEdges edges, the edges in any
\* order
CycleGraphs(maxNodes, maxEdges) ==
  {[nodes |-> [i \in 1..k |-> [id |-> i]],
    edges |-> [i \in 1..Len(es) |-> [source |-> es[i][1], target |-> es[i][2]]]] :
     k \in 0..maxNodes, es \in OrderedPicks((1..maxNodes) \X (1..maxNodes), maxEdges)}

InitCycles ==
  /\ cycleGraph \in CycleGraphs(MaxCycleNodes, MaxCycleEdges)
  /\ cpc = "call"
  /\ cycles = <<>>
  /\ IdleBuild
  /\ IdleNormalize
  /\ IdleExtract
  /\ IdleHood
  /\ IdleLayout
  /\ IdleLoad
  /\ IdleRest

\* the call of detectCycles(graph)
DetectCycles ==
  /\ cpc = "call"
  /\ cycles' = detectCycles(cycleGraph)
  /\ cpc' = "returned"
  /\ UNCHANGED <<cycleGraph, buildVars, normVars, extractVars, hoodVars, layoutVars, loadVars,
                 restVars>>

NextCycles == DetectCycles

SpecCycles == InitCycles /\ [][NextCycles]_vars

(***************************************************************************)
(* The layout handlers (src/src/layouts.js) and the layout history         *)
(* (src/src/history.js).  Where the graph library places the nodes is not  *)
(* decided by this code: a layout run takes one of a few arrangements.     *)
(***************************************************************************)
MAX_HISTORY_SIZE == 20
laneH == 120

LayoutTypes == {"Dashboard", "Worksheet", "Field"}

\* cy.nodes() in element order; at most one node is selected
CyNodeLists ==
  UNION {{[i \in 1..k |-> [id |-> i, type |-> types[i], selected |-> (i = chosen)]] :
            types \in [1..k -> LayoutTypes], chosen \in 0..k} :
         k \in 0..MaxLayoutNodes}

CyLinkSets(k) ==
  {g \in SUBSET ((1..k) \X (1..k)) : Cardinality(g) <= MaxLayoutEdges}

Arrangements == 1..MaxArrangements

\* where arrangement a of the library puts node id
libraryPosition(a, id) == [x |-> id, y |-> a]

arrange(ns, a) == [i \in 1..Len(ns) |-> libraryPosition(a, ns[i].id)]

\* the ids of the nodes of ns that satisfy Keep, in element order
RECURSIVE idsWhere(_, _, _)
idsWhere(ns, keep, i) ==
  IF i > Len(ns) THEN <<>>
  ELSE (IF ns[i].id \in keep THEN <<ns[i].id>> ELSE <<>>) \o idsWhere(ns, keep, i + 1)

ofType(ns, type) == idsWhere(ns, {n.id : n \in {m \in Range(ns) : m.type = type}}, 1)

\* node.incomers('node'): the sources of the edges that end in the node
incomers(ns, links, id) == idsWhere(ns, {e[1] : e \in {l \in links : l[2] = id}}, 1)

\* the targets of the edges that start in the node
outgoers(ns, links, id) == idsWhere(ns, {e[2] : e \in {l \in links : l[1] = id}}, 1)

entryHas(map, id) == \E entry \in map : entry.id = id
entryGet(map, id) == (CHOOSE entry \in map : entry.id = id).value
entrySet(map, id, value) ==
  {entry \in map : entry.id # id} \cup {[id |-> id, value |-> value]}

\* saveLayoutState
\* saveLayoutState dropping the oldest state without moving the index back
saveLayoutState_IndexKept(history, index, current) ==
  LET kept == SubSeq(history, 1, index + 1)
      pushed == Append(kept, current)
  IN  IF Len(pushed) > MAX_HISTORY_SIZE
      THEN [layoutHistory |-> Tail(pushed), layoutHistoryIndex |-> index + 1]
      ELSE [layoutHistory |-> pushed, layoutHistoryIndex |-> index + 1]

saveLayoutState(history, index, current) ==
  LET kept == SubSeq(history, 1, index + 1)
      pushed == Append(kept, current)
  IN  IF Len(pushed) > MAX_HISTORY_SIZE
      THEN [layoutHistory |-> Tail(pushed), layoutHistoryIndex |-> index]
      ELSE [layoutHistory |-> pushed, layoutHistoryIndex |-> index + 1]

\* restoreLayoutState
restoreLayoutState(current, saved) ==
  [i \in DOMAIN current |-> IF i \in DOMAIN saved THEN saved[i] ELSE current[i]]

\* roots.forEach of getHierarchyRootsAndLevels
RECURSIVE seedRoots(_, _, _)
seedRoots(roots, i, st) ==
  IF i > Len(roots) THEN st
  ELSE seedRoots(roots, i + 1,
         [rank |-> entrySet(st.rank, roots[i], 0),
          visited |-> st.visited \cup {roots[i]},
          queue |-> Append(st.queue, [node |-> roots[i], level |-> 0])])

\* preds.forEach of getHierarchyRootsAndLevels
RECURSIVE visitPreds(_, _, _, _)
visitPreds(preds, i, level, st) ==
  IF i > Len(preds) THEN st
  ELSE LET pid == preds[i] IN
       visitPreds(preds, i + 1, level,
         IF pid \in st.visited THEN st
         ELSE [rank |-> entrySet(st.rank, pid, level + 1),
               visited |-> st.visited \cup {pid},
               queue |-> Append(st.queue, [node |-> pid, level |-> level + 1])])

\* while (queue.length) of getHierarchyRootsAndLevels
RECURSIVE drainQueue(_, _, _)
drainQueue(ns, links, st) ==
  IF st.queue = <<>> THEN st
  ELSE LET head == Head(st.queue)
           shifted == [st EXCEPT !.queue = Tail(st.queue)]
       IN  drainQueue(ns, links,
                      visitPreds(incomers(ns, links, head.node), 1, head.level, shifted))

hierarchyRoots(ns) ==
  IF ofType(ns, "Dashboard") # <<>> THEN ofType(ns, "Dashboard") ELSE ofType(ns, "Worksheet")

getHierarchyRootsAndLevels_RootsOnly(ns, links) ==
  seedRoots(hierarchyRoots(ns), 1, [rank |-> {}, visited |-> {}, queue |-> <<>>]).rank

getHierarchyRootsAndLevels(ns, links) ==
  drainQueue(ns, links,
             seedRoots(hierarchyRoots(ns), 1,
                       [rank |-> {}, visited |-> {}, queue |-> <<>>])).rank

\* the root runCenteredFromSelectionLayout settles on, 0 when there is none
centeredRoot(ns) ==
  LET selected == {n.id : n \in {m \in Range(ns) : m.selected}}
      selectedDashboards == idsWhere(ns, selected \cap Range(ofType(ns, "Dashboard")), 1)
      selectedNodes == idsWhere(ns, selected, 1)
  IN  IF selectedDashboards # <<>> THEN Head(selectedDashboards)
      ELSE IF selectedNodes # <<>> THEN Head(selectedNodes)
      ELSE IF ofType(ns, "Dashboard") # <<>> THEN Head(ofType(ns, "Dashboard"))
      ELSE IF ofType(ns, "Worksheet") # <<>> THEN Head(ofType(ns, "Worksheet"))
      ELSE IF ns # <<>> THEN ns[1].id
      ELSE 0

\* cy.elements().bfs({roots, directed: true, visit}): each node reached along
\* outgoing edges is visited once, with its depth
RECURSIVE bfsVisit(_, _, _)
bfsVisit(ns, links, st) ==
  IF st.queue = <<>> THEN st
  ELSE LET head == Head(st.queue)
           fresh == SelectSeq(outgoers(ns, links, head.node),
                              LAMBDA id : id \notin st.visited)
       IN  bfsVisit(ns, links,
             [dist |-> entrySet(st.dist, head.node, head.level),
              visited |-> st.visited \cup Range(fresh),
              queue |-> Tail(st.queue) \o
                          [i \in 1..Len(fresh) |-> [node |-> fresh[i], level |-> head.level + 1]]])

bfs(ns, links, root) ==
  bfsVisit(ns, links, [dist |-> {}, visited |-> {root},
                       queue |-> <<[node |-> root, level |-> 0]>>]).dist

\* Math.max(0, ...values)
MaxOf(values) ==
  LET all == values \cup {0} IN CHOOSE m \in all : \A v \in all : v <= m

unreachedDistance_SameAsFarthest(reached) == MaxOf({entry.value : entry \in reached})

\* maxD + 1
unreachedDistance(reached) == MaxOf({entry.value : entry \in reached}) + 1

\* the dist object once every node has an entry
centeredDistances(ns, links, root) ==
  LET reached == bfs(ns, links, root) IN
  reached \cup {[id |-> n.id, value |-> unreachedDistance(reached)] :
                  n \in {m \in Range(ns) : ~entryHas(reached, m.id)}}

InitLayout ==
  /\ cyNodes \in CyNodeLists
  /\ cyLinks \in CyLinkSets(Len(cyNodes))
  /\ positions = arrange(cyNodes, 0)
  /\ layoutHistory = <<>>
  /\ layoutHistoryIndex = -1
  /\ rank = {}
  /\ dist = {}
  /\ lastCall = "none"
  /\ positionsBefore = positions
  /\ layoutRuns = 0
  /\ IdleBuild
  /\ IdleNormalize
  /\ IdleExtract
  /\ IdleHood
  /\ IdleCycles
  /\ IdleLoad
  /\ IdleRest

LayoutFrame ==
  UNCHANGED <<cyNodes, cyLinks, buildVars, normVars, extractVars, hoodVars, cycleVars, loadVars,
              restVars>>

EnterLayout(name) ==
  /\ layoutRuns < MaxLayoutRuns
  /\ layoutRuns' = layoutRuns + 1
  /\ lastCall' = name
  /\ positionsBefore' = positions

SaveHistory ==
  LET saved == saveLayoutState(layoutHistory, layoutHistoryIndex, positions) IN
  /\ layoutHistory' = saved.layoutHistory
  /\ layoutHistoryIndex' = saved.layoutHistoryIndex

RunForceLayout ==
  \E a \in Arrangements :
    /\ EnterLayout("runForceLayout")
    /\ SaveHistory
    /\ positions' = arrange(cyNodes, a)
    /\ UNCHANGED <<rank, dist>>
    /\ LayoutFrame

RunGridLayout ==
  \E a \in Arrangements :
    /\ EnterLayout("runGridLayout")
    /\ SaveHistory
    /\ positions' = arrange(cyNodes, a)
    /\ UNCHANGED <<rank, dist>>
    /\ LayoutFrame

RunHierarchyLayout ==
  \E a \in Arrangements :
    LET levels == getHierarchyRootsAndLevels(cyNodes, cyLinks)
        placed == arrange(cyNodes, a)
    IN  /\ EnterLayout("runHierarchyLayout")
        /\ SaveHistory
        /\ rank' = levels
        /\ positions' =
             [i \in 1..Len(cyNodes) |->
                IF entryHas(levels, cyNodes[i].id)
                THEN [x |-> placed[i].x, y |-> entryGet(levels, cyNodes[i].id) * laneH + 40]
                ELSE placed[i]]
        /\ UNCHANGED dist
        /\ LayoutFrame

RunCenteredFromSelectionLayout ==
  \E a \in Arrangements :
    LET root == centeredRoot(cyNodes) IN
    /\ EnterLayout("runCenteredFromSelectionLayout")
    /\ IF root = 0
       THEN UNCHANGED <<positions, dist>>
       ELSE /\ dist' = centeredDistances(cyNodes, cyLinks, root)
            /\ positions' = arrange(cyNodes, a)
    /\ UNCHANGED <<layoutHistory, layoutHistoryIndex, rank>>
    /\ LayoutFrame

UndoLayout ==
  /\ lastCall' = "undoLayout"
  /\ IF layoutHistoryIndex <= 0
     THEN UNCHANGED <<layoutHistoryIndex, positions>>
     ELSE /\ layoutHistoryIndex' = layoutHistoryIndex - 1
          /\ positions' = restoreLayoutState(positions, layoutHistory[layoutHistoryIndex])
  /\ UNCHANGED <<layoutHistory, rank, dist, positionsBefore, layoutRuns>>
  /\ LayoutFrame

RedoLayout ==
  /\ lastCall' = "redoLayout"
  /\ IF layoutHistoryIndex >= Len(layoutHistory) - 1
     THEN UNCHANGED <<layoutHistoryIndex, positions>>
     ELSE /\ layoutHistoryIndex' = layoutHistoryIndex + 1
          /\ positions' = restoreLayoutState(positions, layoutHistory[layoutHistoryIndex + 2])
  /\ UNCHANGED <<layoutHistory, rank, dist, positionsBefore, layoutRuns>>
  /\ LayoutFrame

NextLayout ==
  \/ RunForceLayout
  \/ RunGridLayout
  \/ RunHierarchyLayout
  \/ RunCenteredFromSelectionLayout
  \/ UndoLayout
  \/ RedoLayout

SpecLayout == InitLayout /\ [][NextLayout]_vars

(***************************************************************************)
(* The layout history on its own (src/src/history.js): saveLayoutState,    *)
(* undoLayout and redoLayout in any order, often enough to fill it.        *)
(***************************************************************************)
InitHistory ==
  /\ cyNodes \in {ns \in CyNodeLists : Len(ns) = 1}
  /\ cyLinks = {}
  /\ positions = arrange(cyNodes, 0)
  /\ layoutHistory = <<>>
  /\ layoutHistoryIndex = -1
  /\ rank = {}
  /\ dist = {}
  /\ lastCall = "none"
  /\ positionsBefore = positions
  /\ layoutRuns = 0
  /\ IdleBuild
  /\ IdleNormalize
  /\ IdleExtract
  /\ IdleHood
  /\ IdleCycles
  /\ IdleLoad
  /\ IdleRest

\* saveLayoutState()
SaveLayoutState ==
  /\ layoutRuns < MaxSaves
  /\ layoutRuns' = layoutRuns + 1
  /\ lastCall' = "saveLayoutState"
  /\ SaveHistory
  /\ UNCHANGED <<positions, positionsBefore, rank, dist>>
  /\ LayoutFrame

NextHistory ==
  \/ SaveLayoutState
  \/ UndoLayout
  \/ RedoLayout

SpecHistory == InitHistory /\ [][NextHistory]_vars

(***************************************************************************)
(* handleFiles (ui-handlers module).  It is an async function: what runs   *)
(* between two awaits runs without interruption, and overlapping upload    *)
(* events interleave at the awaits.  A stored value is named by the upload *)
(* it was computed from.                                                   *)
(***************************************************************************)
MAX_FILE_SIZE == 100 * 1024 * 1024
WARN_FILE_SIZE == 50 * 1024 * 1024

Uploads == 1..MaxUploads

FileSizes == {0, WARN_FILE_SIZE, WARN_FILE_SIZE + 1, MAX_FILE_SIZE, MAX_FILE_SIZE + 1}

\* what the file holds: a workbook, a workbook whose chain of calculations
\* is deeper than the call stack the recursive dfs of detectCycles can use,
\* markup that is not well-formed, well-formed markup with another root
FileContents == {"workbook", "deep workbook", "not well-formed", "other root"}

Files == [size : FileSizes, content : FileContents]

NoFile == [size |-> 0, content |-> "none"]

NoSnapshot == [meta |-> 0, graph |-> 0, lookups |-> NoLookups]

NotCalled ==
  [pc |-> "idle", file |-> NoFile, flagged |-> FALSE, read |-> FALSE,
   error |-> "", before |-> NoSnapshot]

tooLarge_AboveWarning(size) == size > WARN_FILE_SIZE

\* fileSize > MAX_FILE_SIZE
tooLarge(size) == size > MAX_FILE_SIZE

\* fileSize > WARN_FILE_SIZE
largeFile(size) == size > WARN_FILE_SIZE

uploadInProgress_Ignored(flag) == FALSE

\* if (state.isProcessingFile)
uploadInProgress(flag) == flag

parseTwbText_AnyRoot(content) ==
  IF content = "not well-formed" THEN "throws" ELSE "returns"

\* parseTwbText: the parsererror check and the root element check
parseTwbText(content) ==
  IF content = "not well-formed" THEN "throws"
  ELSE IF content = "other root" THEN "throws"
  ELSE "returns"

\* buildGraph ends with detectCycles, whose dfs recurses once per node of a
\* chain; buildGraph rethrows what it catches
buildGraphOutcome(content) ==
  IF content = "deep workbook" THEN "throws" ELSE "returns"

\* the flag released only when the load went through
processingAfter_SuccessOnly(outcome) == outcome = "failed"

\* finally { state.isProcessingFile = false }, whatever the outcome
processingAfter(outcome) == FALSE

finallyRuns_OnEveryReturn(exit) == TRUE

\* the returns of a call that is turned away come before the try statement,
\* so its finally block does not run for them
finallyRuns(exit) == exit # "rejected"

\* state.isProcessingFile after a call that is turned away
flagAfterReturn(flag) ==
  IF finallyRuns("rejected") THEN processingAfter("rejected") ELSE flag

InitLoad ==
  /\ uploads = [u \in Uploads |-> NotCalled]
  /\ isProcessingFile = FALSE
  /\ stateMeta = 0
  /\ stateGraph = 0
  /\ lookups = NoLookups
  /\ cyReady \in BOOLEAN
  /\ IdleBuild
  /\ IdleNormalize
  /\ IdleExtract
  /\ IdleHood
  /\ IdleCycles
  /\ IdleLayout
  /\ IdleRest

LoadFrame ==
  UNCHANGED <<cyReady, buildVars, normVars, extractVars, hoodVars, cycleVars, layoutVars,
              restVars>>

\* handleFiles from its call to its first await
HandleFiles(u) ==
  \E file \in Files :
    /\ uploads[u].pc = "idle"
    /\ IF uploadInProgress(isProcessingFile) THEN
         /\ uploads' = [uploads EXCEPT ![u] =
              [@ EXCEPT !.pc = "rejected", !.file = file,
                        !.error = "File upload in progress"]]
         /\ isProcessingFile' = flagAfterReturn(isProcessingFile)
       ELSE IF file.size = 0 THEN
         /\ uploads' = [uploads EXCEPT ![u] =
              [@ EXCEPT !.pc = "rejected", !.file = file, !.error = "Invalid file"]]
         /\ isProcessingFile' = flagAfterReturn(isProcessingFile)
       ELSE IF tooLarge(file.size) THEN
         /\ uploads' = [uploads EXCEPT ![u] =
              [@ EXCEPT !.pc = "rejected", !.file = file, !.error = "File too large"]]
         /\ isProcessingFile' = flagAfterReturn(isProcessingFile)
       ELSE
         /\ uploads' = [uploads EXCEPT ![u] =
              [@ EXCEPT !.pc = "reading", !.file = file,
                        !.flagged = largeFile(file.size), !.read = TRUE,
                        !.before = [meta |-> stateMeta, graph |-> stateGraph,
                                    lookups |-> lookups]]]
         /\ isProcessingFile' = TRUE
    /\ UNCHANGED <<stateMeta, stateGraph, lookups>>
    /\ LoadFrame

\* file.arrayBuffer() resolves and parseWorkbookFile starts
ReadResolves(u) ==
  /\ uploads[u].pc = "reading"
  /\ uploads' = [uploads EXCEPT ![u] = [@ EXCEPT !.pc = "parsing"]]
  /\ UNCHANGED <<isProcessingFile, stateMeta, stateGraph, lookups>>
  /\ LoadFrame

\* file.arrayBuffer() rejects: catch, then finally
ReadRejects(u) ==
  /\ uploads[u].pc = "reading"
  /\ uploads' = [uploads EXCEPT ![u] =
       [@ EXCEPT !.pc = "failed", !.error = "Failed to open workbook"]]
  /\ isProcessingFile' = processingAfter("failed")
  /\ UNCHANGED <<stateMeta, stateGraph, lookups>>
  /\ LoadFrame

\* parseWorkbookFile settles; handleFiles runs from there to its end
ParseSettles(u) ==
  LET content == uploads[u].file.content
      failed == [uploads EXCEPT ![u] =
                   [@ EXCEPT !.pc = "failed", !.error = "Failed to open workbook"]]
  IN  /\ uploads[u].pc = "parsing"
      /\ IF parseTwbText(content) = "throws" THEN
           /\ uploads' = failed
           /\ UNCHANGED <<stateMeta, stateGraph, lookups>>
         ELSE IF buildGraphOutcome(content) = "throws" THEN
           /\ stateMeta' = u
           /\ lookups' = [workbook |-> u, builtBy |-> "buildGraph"]
           /\ uploads' = failed
           /\ UNCHANGED stateGraph
         ELSE
           /\ stateMeta' = u
           /\ stateGraph' = u
           /\ lookups' = [workbook |-> u, builtBy |-> "syncGraphLookups"]
           /\ uploads' = IF cyReady
                         THEN [uploads EXCEPT ![u] = [@ EXCEPT !.pc = "loaded"]]
                         ELSE failed
      /\ isProcessingFile' = processingAfter(uploads'[u].pc)
      /\ LoadFrame

NextLoad ==
  \E u \in Uploads :
    \/ HandleFiles(u)
    \/ ReadResolves(u)
    \/ ReadRejects(u)
    \/ ParseSettles(u)

SpecLoad == InitLoad /\ [][NextLoad]_vars

\* a promise handleFiles awaits settles, and the code after the await runs
LoadFairness ==
  \A u \in Uploads :
    /\ WF_vars(ReadResolves(u) \/ ReadRejects(u))
    /\ WF_vars(ParseSettles(u))

SpecLoadFair == SpecLoad /\ LoadFairness

(***************************************************************************)
(* canonicalId (src/src/graph-builder.js) on its own, one step up to the   *)
(* while loop and then one step per test of the loop condition, on sets of *)
(* used ids that can exhaust the numeric suffixes.                         *)
(***************************************************************************)
sField == <<"f","i","e","l","d">>

\* field:total-2 ... field:total-10000, the ids the loop tries for the slug 'total'
SuffixedIds == {sFieldTotal \o <<"-">> \o NumberToString(k) : k \in 2..MAX_ITERATIONS}

LastSuffixedId == sFieldTotal \o <<"-">> \o NumberToString(MAX_ITERATIONS)

\* an id of the shape `${prefix}:${slug}-${Date.now()}-${random}` for the slug 'total'
LastResortId == sFieldTotal \o <<"-">> \o <<"1","7">> \o <<"-">> \o <<"k","3">>

UsedTotal == {sTotal, sFieldTotal}
UsedEverySuffix == UsedTotal \cup SuffixedIds
UsedAllButLastSuffix == UsedEverySuffix \ {LastSuffixedId}
UsedEverySuffixAndLastResort == UsedEverySuffix \cup {LastResortId}

\* usedIds before the call, by name
UsedIdSets ==
  {"nothing", "total", "all but the last suffix", "every suffix",
   "every suffix and a last-resort id"}

usedIdsOf(u) ==
  CASE u = "nothing" -> {}
    [] u = "total" -> UsedTotal
    [] u = "all but the last suffix" -> UsedAllButLastSuffix
    [] u = "every suffix" -> UsedEverySuffix
    [] u = "every suffix and a last-resort id" -> UsedEverySuffixAndLastResort

CanonicalRawIds == {<<>>, sTotal, sProfitBracketed}
CanonicalBaseNames == {<<>>, sTotal}

InitCanonical ==
  /\ canon \in [pc : {"called"}, rawId : CanonicalRawIds, prefix : {sField},
                baseName : CanonicalBaseNames, used : UsedIdSets]
  /\ IdleBuild
  /\ IdleNormalize
  /\ IdleExtract
  /\ IdleHood
  /\ IdleCycles
  /\ IdleLayout
  /\ IdleLoad
  /\ IdleReload
  /\ IdleEdgeCalls

CanonicalFrame ==
  UNCHANGED <<buildVars, normVars, extractVars, hoodVars, cycleVars, layoutVars, loadVars,
              reloadVars, edgeCallVars>>

\* graph-builder.js:158-171, canonicalId up to its while loop
EnterCanonicalId ==
  /\ canon.pc = "called"
  /\ LET entry == canonicalIdEntry(canon.rawId, canon.prefix, canon.baseName,
                                   usedIdsOf(canon.used))
     IN canon' = [pc |-> IF entry.returned THEN "returned" ELSE "loop",
                  rawId |-> canon.rawId, prefix |-> canon.prefix,
                  baseName |-> canon.baseName, used |-> canon.used,
                  slug |-> entry.slug, id |-> entry.id, counter |-> 2, attempts |-> 0]
  /\ CanonicalFrame

\* graph-builder.js:173-185, one test of the loop condition and what follows it
TurnCanonicalId ==
  /\ canon.pc = "loop"
  /\ \E now \in Timestamps, random \in RandomTokens :
       LET turn == canonicalIdTurn(canon.id, canon.counter, canon.prefix, canon.slug,
                                   usedIdsOf(canon.used), [now |-> now, random |-> random])
       IN canon' = [canon EXCEPT !.pc = IF turn.returned THEN "returned" ELSE "loop",
                                 !.id = turn.id,
                                 !.counter = turn.counter,
                                 !.attempts = IF turn.returned THEN @ ELSE @ + 1]
  /\ CanonicalFrame

NextCanonical ==
  \/ EnterCanonicalId
  \/ TurnCanonicalId

SpecCanonical == InitCanonical /\ [][NextCanonical]_vars

(***************************************************************************)
(* addEdge (src/src/graph-builder.js) on its own, called with the ids      *)
(* canonicalId gives to fields whose internal names hold an arrow.         *)
(***************************************************************************)
\* internal names as the workbook gives them
ArrowRawIds ==
  {<<"[","a","]">>, <<"[","a","-",">","b","]">>, <<"[","b","-",">","a","]">>, <<"[","c","]">>}

\* the node ids canonicalId makes of them, none of them taken before
ArrowNodeIds ==
  {canonicalId(rawId, sField, <<>>, {}, [now |-> <<"1","7">>, random |-> <<"k","3">>]) :
     rawId \in ArrowRawIds}

InitEdges ==
  /\ edgeCalls = <<>>
  /\ IdleBuild
  /\ IdleNormalize
  /\ IdleExtract
  /\ IdleHood
  /\ IdleCycles
  /\ IdleLayout
  /\ IdleLoad
  /\ IdleCanon
  /\ IdleReload

\* addEdge(source, target, rel); an undefined id is the empty string here
AddEdge ==
  \E source \in ArrowNodeIds \cup {<<>>}, target \in ArrowNodeIds \cup {<<>>},
     rel \in {FEEDS, USED_IN} :
    LET added == addEdge([edges |-> edges, edgeKeys |-> edgeKeys], source, target, rel) IN
    /\ Len(edgeCalls) < MaxEdgeCalls
    /\ edgeCalls' = Append(edgeCalls, [source |-> source, target |-> target, rel |-> rel])
    /\ edges' = added.edges
    /\ edgeKeys' = added.edgeKeys
    /\ UNCHANGED <<meta, pc, cursor, nodes, usedIds, nameToIds, run, firstIds, buildReturn>>
    /\ UNCHANGED <<normVars, extractVars, hoodVars, cycleVars, layoutVars, loadVars, canonVars,
                   reloadVars>>

NextEdges == AddEdge

SpecEdges == InitEdges /\ [][NextEdges]_vars

(***************************************************************************)
(* Properties of buildGraph.                                               *)
(***************************************************************************)
Returned == pc = "done"

NodeIndices(types) == {i \in 1..Len(nodes) : nodes[i].type \in types}

HasEdge(source, target, rel) ==
  \E k \in 1..Len(edges) :
    edges[k].source = source /\ edges[k].target = target /\ edges[k].rel = rel

\* a caption or a reference with its brackets and its outer white space taken away
BareCaption(s) == Trim(SelectSeq(s, LAMBDA c : c # "[" /\ c # "]"))

\* the nodes of the given types whose caption is the reference, brackets aside
Captioned(types, ref) ==
  {i \in NodeIndices(types) : BareCaption(nodes[i].rawName) = BareCaption(ref)}

\* C1: when a worksheet uses a caption carried by both a Field node and a
\* CalculatedField node, the returned graph has a USED_IN edge from every such
\* CalculatedField node to the worksheet and none from any such Field node.
C1_UsedInBindsToCalculation ==
  Returned =>
    \A w \in 1..Len(meta.worksheets) :
      \A r \in 1..Len(meta.worksheets[w].fields_used) :
        \A s \in Captioned({"Worksheet"}, meta.worksheets[w].name) :
          LET ref == meta.worksheets[w].fields_used[r]
              fs == Captioned({"Field"}, ref)
              cs == Captioned({"CalculatedField"}, ref)
          IN (fs # {} /\ cs # {}) =>
               /\ \A c \in cs : HasEdge(nodes[c].id, nodes[s].id, USED_IN)
               /\ \A f \in fs : ~HasEdge(nodes[f].id, nodes[s].id, USED_IN)

\* a returned graph in which a worksheet uses a caption that a Field and a
\* CalculatedField share, and the calculation's edge is there
C1_Witness ==
  /\ Returned
  /\ \E w \in 1..Len(meta.worksheets) :
       \E r \in 1..Len(meta.worksheets[w].fields_used) :
         \E s \in Captioned({"Worksheet"}, meta.worksheets[w].name) :
           /\ Captioned({"Field"}, meta.worksheets[w].fields_used[r]) # {}
           /\ \E c \in Captioned({"CalculatedField"}, meta.worksheets[w].fields_used[r]) :
                HasEdge(nodes[c].id, nodes[s].id, USED_IN)

\* C2: when a calculated field's formula references a caption carried by both a
\* Field node and a CalculatedField node, the FEEDS edge into the calculated field
\* comes from the CalculatedField node and none comes from the Field node.
C2_FeedsBindsToCalculation ==
  Returned =>
    \A f \in 1..Len(FlatFields(meta)) :
      LET field == FlatFields(meta)[f].field IN
      (field.is_calculated /\ HasReferences(field)) =>
        \A r \in 1..Len(field.references.fields) :
          \A t \in Captioned({"CalculatedField"}, field.name) :
            LET ref == field.references.fields[r]
                fs == Captioned({"Field"}, ref)
                cs == Captioned({"CalculatedField"}, ref)
            IN (fs # {} /\ cs # {}) =>
                 /\ \A c \in cs : HasEdge(nodes[c].id, nodes[t].id, FEEDS)
                 /\ \A x \in fs : ~HasEdge(nodes[x].id, nodes[t].id, FEEDS)

Entities(m) ==
  [i \in 1..Len(FlatFields(m)) |-> [rawId |-> FlatFields(m)[i].field.rawId,
                                    name |-> FlatFields(m)[i].field.name]]
  \o [i \in 1..Len(m.parameters) |-> [rawId |-> m.parameters[i].rawId, name |-> m.parameters[i].name]]
  \o [i \in 1..Len(m.worksheets) |-> [rawId |-> m.worksheets[i].rawId, name |-> m.worksheets[i].name]]
  \o [i \in 1..Len(m.dashboards) |-> [rawId |-> m.dashboards[i].rawId, name |-> m.dashboards[i].name]]

Triple(e) == <<e.source, e.target, e.rel>>

\* C5: the graph never holds two edges of one (source, target, rel) triple.
C5_EdgeTriplesUnique ==
  \A i, j \in 1..Len(edges) : i # j => Triple(edges[i]) # Triple(edges[j])

\* a returned graph whose metadata asks for one USED_IN edge more than once
C5_Witness ==
  /\ Returned
  /\ \E w \in 1..Len(meta.worksheets) :
       LET calls == UsedInCalls(nameToIds, meta.worksheets[w]) IN
       /\ \E a, b \in 1..Len(calls) : a # b /\ calls[a] = calls[b]
       /\ \E a \in 1..Len(calls) : HasEdge(calls[a].source, calls[a].target, USED_IN)

\* every reference by caption that the metadata makes: who refers, to what, and the
\* node types the builder looks the caption up in
References(m) ==
  UNION { { [rel |-> FEEDS, consumerType |-> "CalculatedField",
             consumer |-> FlatFields(m)[f].field.name,
             ref |-> FlatFields(m)[f].field.references.fields[r],
             types |-> {"Field", "CalculatedField"}] :
              r \in 1..Len(FlatFields(m)[f].field.references.fields) }
          \cup
          { [rel |-> PARAM_OF, consumerType |-> "CalculatedField",
             consumer |-> FlatFields(m)[f].field.name,
             ref |-> FlatFields(m)[f].field.references.parameters[r],
             types |-> {"Parameter"}] :
              r \in 1..Len(FlatFields(m)[f].field.references.parameters) } :
          f \in {x \in 1..Len(FlatFields(m)) :
                   /\ FlatFields(m)[x].field.is_calculated
                   /\ HasReferences(FlatFields(m)[x].field)} }
  \cup
  UNION { { [rel |-> USED_IN, consumerType |-> "Worksheet", consumer |-> m.worksheets[w].name,
             ref |-> m.worksheets[w].fields_used[r], types |-> {"Field", "CalculatedField"}] :
              r \in 1..Len(m.worksheets[w].fields_used) } : w \in 1..Len(m.worksheets) }
  \cup
  UNION { { [rel |-> ON, consumerType |-> "Dashboard", consumer |-> m.dashboards[d].name,
             ref |-> m.dashboards[d].worksheets[r], types |-> {"Worksheet"}] :
              r \in 1..Len(m.dashboards[d].worksheets) } : d \in 1..Len(m.dashboards) }

RECURSIVE CollapseSpaces(_, _)
CollapseSpaces(s, inRun) ==
  IF s = <<>> THEN <<>>
  ELSE IF Head(s) \notin WhiteSpace THEN <<Head(s)>> \o CollapseSpaces(Tail(s), FALSE)
  ELSE IF inRun THEN CollapseSpaces(Tail(s), TRUE)
  ELSE <<" ">> \o CollapseSpaces(Tail(s), TRUE)

\* a caption with its brackets gone, its letters in lower case and every run of
\* white space made one space
LooseCaption(s) == CollapseSpaces(ToLowerCase(BareCaption(s)), FALSE)

LooselyCaptioned(types, ref) ==
  {i \in NodeIndices(types) : LooseCaption(nodes[i].rawName) = LooseCaption(ref)}

TwoTotalFields ==
  /\ Len(FlatFields(meta)) = 2
  /\ \A i \in 1..2 :
       /\ FlatFields(meta)[i].field.rawId = <<>>
       /\ FlatFields(meta)[i].field.name = sTotal
       /\ ~FlatFields(meta)[i].field.is_calculated

Normalized == npc = "done"

OutputNodeIds == {normalizedNodes[i].id : i \in 1..Len(normalizedNodes)}

\* C4: every edge of the output has its source and its target among the ids of
\* the output's nodes.
C4_EdgeEndpointsAreNodes ==
  \A k \in 1..Len(normalizedEdges) :
    /\ normalizedEdges[k].source \in OutputNodeIds
    /\ normalizedEdges[k].target \in OutputNodeIds

\* normalizeGraph has returned edges, having dropped an edge to an unknown node
C4_Witness ==
  /\ Normalized
  /\ Len(normalizedEdges) >= 1
  /\ \E i \in 1..Len(rawGraph.edges) :
       /\ rawGraph.edges[i].kind = "object"
       /\ rawGraph.edges[i].target = <<"X">>

\* the endpoint an input edge names, on itself or else in its data object
NamedEndpoint(own, fromData) == IF own # Undefined /\ own # <<>> THEN own ELSE fromData

\* an input edge both of whose endpoints are ids of surviving nodes
Sound(rawEdge) ==
  /\ rawEdge.kind = "object"
  /\ NamedEndpoint(rawEdge.source, rawEdge.data.source) \in OutputNodeIds
  /\ NamedEndpoint(rawEdge.target, rawEdge.data.target) \in OutputNodeIds

\* C8: the edges normalizeGraph removes all lack an endpoint or name a node that
\* did not survive: every other input edge is in the output with its source and
\* target, and the output keeps the input's order.
C8_OnlyDanglingEdgesDropped ==
  Normalized =>
    /\ \A i \in 1..Len(rawGraph.edges) :
         Sound(rawGraph.edges[i]) =>
           \E k \in 1..Len(normalizedEdges) :
             /\ normalizedEdges[k].rawIndex = i
             /\ normalizedEdges[k].source =
                  NamedEndpoint(rawGraph.edges[i].source, rawGraph.edges[i].data.source)
             /\ normalizedEdges[k].target =
                  NamedEndpoint(rawGraph.edges[i].target, rawGraph.edges[i].data.target)
    /\ \A k, l \in 1..Len(normalizedEdges) :
         k < l => normalizedEdges[k].rawIndex < normalizedEdges[l].rawIndex

\* normalizeGraph has returned, having dropped the edge to an unknown node and
\* kept the edge between two surviving nodes
C8_Witness ==
  /\ Normalized
  /\ Len(normalizedEdges) >= 1
  /\ Len(rawGraph.edges) > Len(normalizedEdges)
  /\ \E i \in 1..Len(rawGraph.edges) :
       /\ rawGraph.edges[i].kind = "object"
       /\ rawGraph.edges[i].target = <<"X">>
  /\ \E k \in 1..Len(normalizedEdges) : Sound(rawGraph.edges[normalizedEdges[k].rawIndex])

\* the id an output edge asked for: its own or its data's, else `${source}->${target}`
AskedEdgeId(edge) ==
  LET rawEdge == rawGraph.edges[edge.rawIndex]
      own == IF rawEdge.id # Undefined /\ rawEdge.id # <<>> THEN rawEdge.id ELSE rawEdge.data.id
  IN IF own # Undefined /\ Trim(own) # <<>> THEN Trim(own)
     ELSE edge.source \o <<"-", ">">> \o edge.target

\* the ids of the output edges before the k-th
EarlierEdgeIds(k) == {normalizedEdges[l].id : l \in 1..(k - 1)}

\* the raw edges the edge loop has been through
HandledEdges ==
  IF npc = "nodes" THEN {}
  ELSE IF npc = "edges" THEN 1..(ncursor - 1)
  ELSE 1..Len(rawGraph.edges)

BracketedTokens(f) == fieldMatchesFrom(f, 1)

IsParameterToken(token) == Len(token) >= 2 /\ token[2] = ":"

\* the token without its brackets and its colon
ParameterName(token) == Trim(SelectSeq(token, LAMBDA c : c \notin {"[", "]", ":"}))

\* C7: every non-empty bracketed token is in exactly one list: one that starts
\* with "[:" gives a parameter name and is not among the fields, any other one is
\* among the fields; "[Sales]+[:GrowthRate]" gives fields ["[Sales]"] and
\* parameters ["GrowthRate"].
C7_TokenInOneList ==
  xpc = "returned" =>
    /\ \A i \in 1..Len(BracketedTokens(formula)) :
         LET token == BracketedTokens(formula)[i] IN
         IF IsParameterToken(token)
         THEN /\ token \notin Range(extracted.fields)
              /\ ParameterName(token) # <<>> => ParameterName(token) \in Range(extracted.parameters)
         ELSE token \in Range(extracted.fields)
    /\ formula = sSalesGrowth =>
         extracted = [fields |-> <<sSalesBracketed>>,
                      parameters |-> <<<<"G","r","o","w","t","h","R","a","t","e">>>>]


(***************************************************************************)
(* Properties of getNeighborhood.                                          *)
(***************************************************************************)
HoodAt(n, d) == getNeighborhood(n, d, neighborhoods, cyEdges)

\* C11: for every node n of the graph and every depth d with 1 <= d < 10,
\* what getNeighborhood(n, d) returns is contained in what
\* getNeighborhood(n, d + 1) returns, and once the two are equal every larger
\* depth returns that same collection.
C11_NeighborhoodMonotone ==
  \A n \in HoodNodes : \A d \in MinSafeDepth..(MaxSafeDepth - 1) :
    /\ HoodAt(n, d) \subseteq HoodAt(n, d + 1)
    /\ HoodAt(n, d) = HoodAt(n, d + 1) =>
         \A larger \in (d + 1)..(MaxSafeDepth + 1) : HoodAt(n, larger) = HoodAt(n, d)

\* a memoized call whose collection grows with the next hop, by an edge
\* between two nodes it already held, and then stops growing
C11_Witness ==
  /\ hood # NoHood
  /\ cacheHas(neighborhoods, cacheKey(hood.node, safeDepth(hood.depth)))
  /\ hood.depth \in MinSafeDepth..(MaxSafeDepth - 2)
  /\ hood.result # HoodAt(hood.node, hood.depth + 1)
  /\ HoodAt(hood.node, hood.depth + 1) = HoodAt(hood.node, hood.depth + 2)
  /\ \E el \in HoodAt(hood.node, hood.depth + 1) \ hood.result :
       /\ el.group = "edges"
       /\ nodeElement(el.source) \in hood.result
       /\ nodeElement(el.target) \in hood.result


\* the nodes at most k undirected hops from n
RECURSIVE NodesWithin(_, _, _)
NodesWithin(n, k, g) ==
  IF k = 0 THEN {n}
  ELSE LET near == NodesWithin(n, k - 1, g)
       IN near \cup {e[2] : e \in {x \in g : x[1] \in near}}
               \cup {e[1] : e \in {x \in g : x[2] \in near}}

\* the elements at most k undirected hops from n, k >= 1: the nodes a walk of
\* at most k edges from n ends in, and the edges such a walk goes through
ElementsWithin(n, k, g) ==
  {nodeElement(m) : m \in NodesWithin(n, k, g)}
    \cup {edgeElement(e[1], e[2]) :
            e \in {x \in g : x[1] \in NodesWithin(n, k - 1, g)
                             \/ x[2] \in NodesWithin(n, k - 1, g)}}

\* the requested depth brought into 1..10
Clamped(d) == IF d < 1 THEN 1 ELSE IF d > 10 THEN 10 ELSE d

C24_LoadEmptiesCache ==
  [][/\ (cyEdges' # cyEdges \/ cleared' # cleared) => neighborhoods' = {}
     /\ \A entry \in neighborhoods' :
          entry.result = ElementsWithin(entry.key.node, entry.key.depth, cyEdges')
     /\ hood' # NoHood =>
          hood'.result = ElementsWithin(hood'.node, Clamped(hood'.depth), cyEdges')]_vars

\* after a load that dropped a cached neighborhood, the same node and depth
\* were asked for again and a different collection came back and was cached
C24_Witness ==
  /\ hood # NoHood
  /\ \E old \in cleared :
       /\ old.key = cacheKey(hood.node, safeDepth(hood.depth))
       /\ old.result # hood.result
       /\ cacheHas(neighborhoods, old.key)

(***************************************************************************)
(* Properties of detectCycles.                                             *)
(***************************************************************************)
CyclesReturned == cpc = "returned"

EdgePairs(graph) ==
  {<<graph.edges[i].source, graph.edges[i].target>> : i \in 1..Len(graph.edges)}

\* q lists distinct nodes of the graph, each with an edge to the next and the
\* last with an edge to the first
IsSimpleCycle(graph, q) ==
  /\ Len(q) >= 1
  /\ Range(q) \subseteq Range(adjListKeys(graph))
  /\ \A i \in 1..Len(q) : <<q[i], q[(i % Len(q)) + 1]>> \in EdgePairs(graph)

SimpleCycles(graph) ==
  {q \in OrderedPicks(CycleIds, MaxCycleNodes) : IsSimpleCycle(graph, q)}

\* the graph is one directed cycle through all of its nodes and nothing else
IsSingleCycle(graph) ==
  /\ Len(graph.nodes) >= 1
  /\ Len(graph.edges) = Len(graph.nodes)
  /\ \E q \in SimpleCycles(graph) : Len(q) = Len(graph.nodes)

\* reported lists the cycle q, from any of its nodes, closed by repeating the
\* node it started from
Reports(reported, q) ==
  /\ Len(reported) = Len(q) + 1
  /\ reported[Len(reported)] = reported[1]
  /\ \E shift \in 0..(Len(q) - 1) :
       \A i \in 1..Len(q) : reported[i] = q[((i - 1 + shift) % Len(q)) + 1]

\* C12: for a graph that is a single directed cycle, whatever the order of
\* its edges, detectCycles returns at least one cycle whose id list contains
\* every node of the cycle.
C12_SingleCycleFound ==
  (CyclesReturned /\ IsSingleCycle(cycleGraph)) =>
    \E i \in 1..Len(cycles) : Range(cycles[i]) = Range(adjListKeys(cycleGraph))

\* the three-node cycle, its edges listed against the direction of travel
C12_Witness ==
  /\ CyclesReturned
  /\ IsSingleCycle(cycleGraph)
  /\ Len(cycleGraph.nodes) = 3
  /\ cycleGraph.edges[1].source = 3
  /\ cycleGraph.edges[2].source = 2
  /\ \E i \in 1..Len(cycles) : Len(cycles[i]) = 4 /\ Range(cycles[i]) = {1, 2, 3}

\* C19: detectCycles reports every directed simple cycle of the graph,
\* including cycles that share nodes with another cycle.
C19_EverySimpleCycleReported ==
  CyclesReturned =>
    \A q \in SimpleCycles(cycleGraph) :
      \E i \in 1..Len(cycles) : Reports(cycles[i], q)


\* the graph is made of two or more directed cycles no two of which share a
\* node: every edge joins listed nodes, every node has as many incoming as
\* outgoing edges and at most one of each, and two cycles are apart
IsDisjointCycles(graph) ==
  /\ \A e \in EdgePairs(graph) :
       e[1] \in Range(adjListKeys(graph)) /\ e[2] \in Range(adjListKeys(graph))
  /\ \A n \in Range(adjListKeys(graph)) :
       /\ Cardinality({e \in EdgePairs(graph) : e[1] = n}) <= 1
       /\ Cardinality({e \in EdgePairs(graph) : e[1] = n})
            = Cardinality({e \in EdgePairs(graph) : e[2] = n})
  /\ \E q, r \in SimpleCycles(graph) : Range(q) \cap Range(r) = {}

\* C25: for a graph made of several vertex-disjoint directed cycles,
\* detectCycles reports each of them: for every such cycle, one of the
\* reported cycles contains exactly its node ids.
C25_DisjointCyclesAllReported ==
  (CyclesReturned /\ IsDisjointCycles(cycleGraph)) =>
    \A q \in SimpleCycles(cycleGraph) :
      \E i \in 1..Len(cycles) : Range(cycles[i]) = Range(q)

\* a two-node cycle and a self-loop on the third node, which is the first key
\* of adjList, both reported
C25_Witness ==
  /\ CyclesReturned
  /\ IsDisjointCycles(cycleGraph)
  /\ Len(cycleGraph.nodes) = 3
  /\ EdgePairs(cycleGraph) = {<<1, 1>>, <<2, 3>>, <<3, 2>>}
  /\ Len(cycles) = 2
  /\ cycles[1] = <<1, 1>>
  /\ Range(cycles[2]) = {2, 3}

(***************************************************************************)
(* Properties of the layout handlers and of the layout history.            *)
(***************************************************************************)
LayoutIds == {n.id : n \in Range(cyNodes)}

\* the nodes within k edges of a node of S, edges followed backwards
\* ("in") or forwards ("out")
RECURSIVE Within(_, _, _)
Within(S, k, direction) ==
  IF k = 0 THEN S
  ELSE LET nearer == Within(S, k - 1, direction) IN
       nearer \cup {IF direction = "in" THEN l[1] ELSE l[2] :
                      l \in {e \in cyLinks :
                               (IF direction = "in" THEN e[2] ELSE e[1]) \in nearer}}

Reachable(S, id, direction) == id \in Within(S, Len(cyNodes), direction)

Hops(S, id, direction) ==
  CHOOSE k \in 0..Len(cyNodes) :
    /\ id \in Within(S, k, direction)
    /\ \A j \in 0..(k - 1) : id \notin Within(S, j, direction)

HierarchyRootSet == Range(hierarchyRoots(cyNodes))

RanHierarchy == lastCall = "runHierarchyLayout"

\* C13 as stated: after the hierarchy ranking every node has a rank, a node
\* reachable from a root along incoming edges its hop distance from the
\* nearest root and every unreached node maxDepth + 1.
C13_EveryNodeRanked ==
  RanHierarchy =>
    \A id \in LayoutIds :
      /\ entryHas(rank, id)
      /\ entryGet(rank, id) =
           IF Reachable(HierarchyRootSet, id, "in")
           THEN Hops(HierarchyRootSet, id, "in")
           ELSE MaxOf({Hops(HierarchyRootSet, r, "in") :
                         r \in {n \in LayoutIds : Reachable(HierarchyRootSet, n, "in")}}) + 1

\* C13 amended: after the hierarchy ranking a node reachable from a root
\* along incoming edges has its hop distance from the nearest root as rank
\* and sits in the lane of that rank; an unreached node has no rank and stays
\* where the breadthfirst layout put it.
C13_ReachedNodesRanked ==
  RanHierarchy =>
    \A i \in 1..Len(cyNodes) :
      LET id == cyNodes[i].id IN
      IF Reachable(HierarchyRootSet, id, "in")
      THEN /\ entryHas(rank, id)
           /\ entryGet(rank, id) = Hops(HierarchyRootSet, id, "in")
           /\ positions[i].y = Hops(HierarchyRootSet, id, "in") * laneH + 40
      ELSE /\ ~entryHas(rank, id)
           /\ \E a \in Arrangements : positions[i] = libraryPosition(a, id)

\* worksheets as roots, a node one hop behind them and a node no root leads to
C13_Witness ==
  /\ RanHierarchy
  /\ ofType(cyNodes, "Dashboard") = <<>>
  /\ \E id \in LayoutIds : entryHas(rank, id) /\ entryGet(rank, id) = 1
  /\ \E id \in LayoutIds : ~entryHas(rank, id)

RanCentered == lastCall = "runCenteredFromSelectionLayout" /\ centeredRoot(cyNodes) # 0

CenteredRootSet == {centeredRoot(cyNodes)}

\* C14: in the centered-from-selection ranking every node reachable from the
\* chosen root along directed edges has its distance from the root, and
\* every unreached node has one more than the largest distance of a reached
\* node.
C14_CenteredDistances ==
  RanCentered =>
    \A id \in LayoutIds :
      /\ entryHas(dist, id)
      /\ entryGet(dist, id) =
           IF Reachable(CenteredRootSet, id, "out")
           THEN Hops(CenteredRootSet, id, "out")
           ELSE MaxOf({Hops(CenteredRootSet, r, "out") :
                         r \in {n \in LayoutIds : Reachable(CenteredRootSet, n, "out")}}) + 1

\* the selected node is the root although a dashboard exists; one node is a
\* hop away and one is out of reach
C14_Witness ==
  /\ RanCentered
  /\ \E n \in Range(cyNodes) : n.selected /\ n.type # "Dashboard"
  /\ ofType(cyNodes, "Dashboard") # <<>>
  /\ \E id \in LayoutIds :
       Reachable(CenteredRootSet, id, "out") /\ entryGet(dist, id) = 1
  /\ \E id \in LayoutIds :
       ~Reachable(CenteredRootSet, id, "out") /\ entryGet(dist, id) = 2

\* C20: one call of undoLayout right after a Force, Grid or Hierarchy layout
\* puts every node back where it was immediately before that layout.
C20_UndoRestoresPrevious ==
  [][(/\ lastCall \in {"runForceLayout", "runGridLayout", "runHierarchyLayout"}
      /\ lastCall' = "undoLayout")
     => positions' = positionsBefore]_vars


\* C28: after any sequence of saveLayoutState, undoLayout and redoLayout
\* calls the layout history holds at most 20 states, layoutHistoryIndex is
\* between -1 and the length of the history less one, and it is at least 0
\* once a state has been saved (layoutRuns counts the saveLayoutState calls).
C28_HistoryBounded ==
  /\ Len(layoutHistory) <= 20
  /\ layoutHistoryIndex >= -1
  /\ layoutHistoryIndex <= Len(layoutHistory) - 1
  /\ layoutRuns >= 1 => layoutHistoryIndex >= 0

\* more than 20 states have been saved, the oldest dropped, and undoLayout has
\* then gone back to the first one kept
C28_Witness ==
  /\ layoutRuns > MAX_HISTORY_SIZE
  /\ Len(layoutHistory) = MAX_HISTORY_SIZE
  /\ layoutHistoryIndex = 0
  /\ lastCall = "undoLayout"

(***************************************************************************)
(* Properties of handleFiles.                                              *)
(***************************************************************************)
\* the invocations between setting and clearing state.isProcessingFile
Holders == {u \in Uploads : uploads[u].pc \in {"reading", "parsing"}}

\* the invocations that got past the isProcessingFile check
SizeChecked ==
  {u \in Uploads : uploads[u].pc # "idle" /\ uploads[u].error # "File upload in progress"}

\* C15: a file larger than the hard maximum (100 MB) is rejected before any
\* reading or parsing of its content starts, and a file larger than the
\* warning threshold (50 MB) but not larger than the maximum is flagged and
\* still processed to the end.
C15_SizeLimits ==
  \A u \in SizeChecked :
    LET call == uploads[u] IN
    /\ call.file.size > MAX_FILE_SIZE =>
         /\ call.pc = "rejected"
         /\ call.error = "File too large"
         /\ ~call.read
    /\ (call.file.size > WARN_FILE_SIZE /\ call.file.size <= MAX_FILE_SIZE) =>
         /\ call.flagged
         /\ call.read
         /\ call.pc \in {"reading", "parsing", "loaded", "failed"}
         /\ call.error \notin {"File too large", "Invalid file"}

\* a file of exactly the maximum size was flagged and loaded, and a file one
\* byte larger was turned away
C15_Witness ==
  /\ \E u \in Uploads :
       /\ uploads[u].file.size = MAX_FILE_SIZE
       /\ uploads[u].flagged
       /\ uploads[u].pc = "loaded"
       /\ stateGraph = u
  /\ \E u \in Uploads :
       /\ uploads[u].file.size = MAX_FILE_SIZE + 1
       /\ uploads[u].error = "File too large"

\* C16: when the markup is not well-formed or its root element is not a
\* workbook element, the load ends in an error and leaves the stored
\* metadata, graph and lookup indices as they were when it began.
C16_BadMarkupChangesNothing ==
  [][\A u \in Uploads :
       (/\ uploads[u].pc = "parsing"
        /\ uploads[u].file.content \in {"not well-formed", "other root"}
        /\ uploads'[u].pc # "parsing")
       => /\ uploads'[u].pc = "failed"
          /\ uploads'[u].error = "Failed to open workbook"
          /\ stateMeta' = uploads[u].before.meta
          /\ stateGraph' = uploads[u].before.graph
          /\ lookups' = uploads[u].before.lookups]_vars

\* a workbook is loaded and a later file with another root element has failed
C16_Witness ==
  \E u \in Uploads :
    /\ uploads[u].pc = "failed"
    /\ uploads[u].file.content = "other root"
    /\ uploads[u].before.meta # 0
    /\ stateMeta = uploads[u].before.meta
    /\ stateGraph = stateMeta
    /\ lookups = [workbook |-> stateMeta, builtBy |-> "syncGraphLookups"]

\* C17: whenever no load is in progress, the stored metadata, the stored
\* graph and the lookup indices all come from the same workbook.
C17_StoredStateIsOneWorkbook ==
  ~isProcessingFile => (stateGraph = stateMeta /\ lookups.workbook = stateMeta)

\* C18: at most one handleFiles invocation is between setting and clearing
\* isProcessingFile, and the flag is set exactly while there is one.
C18_OneUploadAtATime ==
  /\ Cardinality(Holders) <= 1
  /\ isProcessingFile <=> Holders # {}

\* an upload event arrived while another upload was being parsed
C18_Witness ==
  \E u, v \in Uploads :
    /\ uploads[u].pc = "parsing"
    /\ uploads[v].pc = "rejected"
    /\ uploads[v].error = "File upload in progress"
    /\ uploads[v].file.content = "workbook"
    /\ uploads[v].file.size = WARN_FILE_SIZE

\* C27: every handleFiles invocation that has set isProcessingFile comes to
\* its end, loaded or failed at whatever step, with the flag cleared; and the
\* flag is never left set by an invocation that has finished.
C27_FlagAlwaysReleased ==
  /\ \A u \in Uploads :
       (uploads[u].pc \in {"reading", "parsing"} /\ isProcessingFile)
         ~> (uploads[u].pc \in {"loaded", "failed"} /\ ~isProcessingFile)
  /\ [](isProcessingFile => Holders # {})

\* a load failed inside buildGraph, after which another upload was let in and
\* loaded
C27_Witness ==
  \E u, v \in Uploads :
    /\ uploads[u].pc = "failed"
    /\ uploads[u].file.content = "deep workbook"
    /\ uploads[v].pc = "loaded"
    /\ uploads[v].before.meta = u
    /\ ~isProcessingFile

\* C30: a handleFiles call that is turned away (another upload in progress,
\* an empty file, a file over the size limit) changes nothing in the
\* application state: the stored metadata, graph and lookup indices, the
\* other invocations and the isProcessingFile flag are as they were, so the
\* flag held by the upload in progress is not cleared.
C30_TurnedAwayChangesNothing ==
  [][\A u \in Uploads :
       (uploads[u].pc = "idle" /\ uploads'[u].pc = "rejected")
       => /\ isProcessingFile' = isProcessingFile
          /\ stateMeta' = stateMeta
          /\ stateGraph' = stateGraph
          /\ lookups' = lookups
          /\ \A v \in Uploads \ {u} : uploads'[v] = uploads[v]]_vars

\* an upload event was turned away while another file was still being read,
\* and the flag is still set for that one
C30_Witness ==
  \E u, v \in Uploads :
    /\ uploads[u].pc = "reading"
    /\ uploads[v].pc = "rejected"
    /\ uploads[v].error = "File upload in progress"
    /\ isProcessingFile

(***************************************************************************)
(* Properties of canonicalId.                                              *)
(***************************************************************************)
CanonicalReturned == canon.pc = "returned"

\* C21: every call to canonicalId makes at most MAX_ITERATIONS suffix attempts
\* and returns an id that was not in usedIds before the call, whatever usedIds
\* held.  Violated: once the suffixes 2..MAX_ITERATIONS are all taken, the
\* `${prefix}:${slug}-${Date.now()}-${random}` id is returned without being
\* looked up, and usedIds can hold it already.
C21_ReturnsUnusedId ==
  /\ canon.pc \in {"loop", "returned"} => canon.attempts <= MAX_ITERATIONS
  /\ CanonicalReturned => canon.id \notin usedIdsOf(canon.used)

(***************************************************************************)
(* Properties of addEdge.                                                  *)
(***************************************************************************)
\* the calls addEdge does not return from at once: both ids given
LinkingCalls == {i \in 1..Len(edgeCalls) :
                   Truthy(edgeCalls[i].source) /\ Truthy(edgeCalls[i].target)}

\* C29: two (source, target, rel) triples that differ in any component
\* always give two distinct edges, whatever characters the node ids contain:
\* every relationship addEdge was called with has its own edge.  Violated:
\* the key `${source}->${target}:${rel}` is the same for (a->b, a) and
\* (a, b->a), and the second call returns without adding its edge.
C29_DistinctTriplesDistinctEdges ==
  \A i \in LinkingCalls :
    \E k \in 1..Len(edges) :
      /\ edges[k].source = edgeCalls[i].source
      /\ edges[k].target = edgeCalls[i].target
      /\ edges[k].rel = edgeCalls[i].rel

====
